---- MODULE Spec2Model ----
(***************************************************************************)
(* Model of the SQLite feed store of YoutubeRSSMaker (feed_storage.py):    *)
(* the feeds and videos tables and the FeedStorage operations on them.     *)
(*                                                                         *)
(* Time.  datetime.now(timezone.utc) is the integer clock, counted in      *)
(* ticks since midnight UTC of the first day of a month.  The TEXT columns *)
(* hold datetime.isoformat() strings; a string is the pair                 *)
(* <<day index, tick of day>>, fixed-width fields compared field by field  *)
(* as SQLite compares TEXT.  All timestamps are UTC, as the YouTube API    *)
(* and datetime.now(timezone.utc) produce them.                            *)
(***************************************************************************)
EXTENDS Integers, Sequences, FiniteSets, TLC

\* ---- bounds of the model ----
NumSources == 2
NumVideos == 2
NumRevisions == 2
MaxBatch == 2
MaxTime == 2
TicksPerDay == 2
MaxDays == 1
MaxQueries == 2
NumRegistrations == 2
MaxItems == 2
MaxInterval == 2
MaxElapsed == 3
MaxCycles == 3
MaxLoopTime == 8
MaxSeconds == 7325
MaxChannels == 2

\* default of cleanup_old_videos(days=365)
DefaultDays == 365

Sources == 1..NumSources
VideoIds == 1..NumVideos
Revisions == 1..NumRevisions

\* Python None / SQL NULL, and a present optional value
NoValue == <<>>
Some(x) == <<x>>

\* ---- datetime <-> TEXT ----
\* datetime.isoformat(): the stored text of an instant
isoformat(t) == <<t \div TicksPerDay, t % TicksPerDay>>

\* datetime.fromisoformat(): the instant of a stored text
fromisoformat(s) == s[1] * TicksPerDay + s[2]

\* SQLite's comparison of two TEXT values (left-to-right, field by field)
TextLess(a, b) == a[1] < b[1] \/ (a[1] = b[1] /\ a[2] < b[2])

\* a publishedAt string that datetime.fromisoformat rejects
BadDate == <<>>

\* ---- the raw video dicts handed to store_videos ----
\* publishedAt of revision rev of video id, as the API reports it
PublishedAtOf(id, rev) == id + rev - 3

RawVideo(id, rev) ==
    [id |-> id, wellformed |-> TRUE, title |-> rev,
     publishedAt |-> isoformat(PublishedAtOf(id, rev)),
     viewCount |-> IF rev = 1 THEN NoValue ELSE Some(rev)]

\* a dict whose publishedAt is missing or unparsable
BadDateVideo(id) ==
    [id |-> id, wellformed |-> TRUE, title |-> 1,
     publishedAt |-> BadDate, viewCount |-> NoValue]

\* a dict without its "id" / "snippet" key
MalformedVideo ==
    [id |-> 0, wellformed |-> FALSE, title |-> 1,
     publishedAt |-> BadDate, viewCount |-> NoValue]

RawVideos ==
    {RawVideo(id, rev) : id \in VideoIds, rev \in Revisions}
        \cup {BadDateVideo(1)}
        \cup {MalformedVideo}

Batches == UNION {[1..n -> RawVideos] : n \in 0..MaxBatch}

VARIABLES
    feeds,      \* table feeds: channel_id -> row
    videos,     \* table videos: video_id -> row
    clock,      \* datetime.now(timezone.utc) of the latest call
    call,       \* the call that has just returned (operation, arguments), or Idle
    ret,        \* what that call returned or raised
    before      \* history: the two tables as they were when that call was made

vars == <<feeds, videos, clock, call, ret, before>>

\* the call reads the clock, which has not gone backwards since the last call
Nows == {t \in {clock, clock + 1} : t <= MaxTime}

\* no call has returned since the caller took the last result
Idle == [op |-> "idle"]

\* the tables a call starts from, kept until the caller takes its result
Tables == [feeds |-> feeds, videos |-> videos]
NoTables == [feeds |-> <<>>, videos |-> <<>>]

Returned(v) == [raised |-> "", value |-> v]
Raised(e) == [raised |-> e, value |-> NoValue]

\* SELECT ... WHERE channel_id = ? on a videos table
VideosOf(vt, channel_id) == {v \in DOMAIN vt : vt[v].channel_id = channel_id}

Init ==
    /\ feeds = <<>>
    /\ videos = <<>>
    /\ clock = 1
    /\ call = Idle
    /\ before = NoTables
    /\ ret = Returned(NoValue)

\* ---- register_feed ----
\* a Python dict with string keys: the set of its <<key, value>> items
EmptyDict == {}

\* json.dumps(dict) / json.loads(text): the TEXT of column feed_config is the
\* JSON object with the members of the dict
json_dumps(d) == [object |-> d]
json_loads(s) == s.object

\* the channel identifiers (@handle, URL) users register feeds with; they are
\* distinct from every channel id
Handle(k) == NumSources + k

\* the argument lists register_feed is called with: feed_config omitted and
\* the defaults of user_id and api_key, or all given
Registration(k) ==
    [channel_identifier |-> Handle(k),
     channel_title |-> k,
     feed_config |-> IF k = 1 THEN NoValue ELSE Some({<<"oldest_first", k = 2>>}),
     user_id |-> IF k = 1 THEN "DefaultUser" ELSE "alice",
     api_key |-> IF k = 1 THEN NoValue ELSE Some("key")]

\* mutant: the configuration given is dropped
ConfigOrEmpty_Dropped(feed_config) == EmptyDict

\* "config = feed_config or {}"
ConfigOrEmpty(feed_config) ==
    IF feed_config = NoValue \/ feed_config[1] = EmptyDict THEN EmptyDict ELSE feed_config[1]

\* mutant: the registration time is not written, last_updated is the epoch
FeedRow_Epoch(reg, now) ==
    [channel_identifier |-> reg.channel_identifier,
     channel_title |-> reg.channel_title,
     last_updated |-> isoformat(0),
     last_video_count |-> 0,
     feed_config |-> json_dumps(ConfigOrEmpty(reg.feed_config)),
     user_id |-> reg.user_id,
     api_key |-> reg.api_key,
     query_count |-> 0,
     last_queried |-> NoValue]

\* the row "INSERT OR REPLACE INTO feeds (...) VALUES (?, ?, ?, ?, 0, ?, ?, ?)"
\* writes; query_count and last_queried take the defaults of the schema
FeedRow(reg, now) ==
    [channel_identifier |-> reg.channel_identifier,
     channel_title |-> reg.channel_title,
     last_updated |-> isoformat(now),
     last_video_count |-> 0,
     feed_config |-> json_dumps(ConfigOrEmpty(reg.feed_config)),
     user_id |-> reg.user_id,
     api_key |-> reg.api_key,
     query_count |-> 0,
     last_queried |-> NoValue]

\* INSERT OR REPLACE on feeds: the row with this primary key is replaced or added
InsertOrReplaceFeed(ft, channel_id, row) ==
    [c \in DOMAIN ft \cup {channel_id} |-> IF c = channel_id THEN row ELSE ft[c]]

\* the StoredFeed register_feed returns, built from its arguments
RegisteredFeed(channel_id, reg, now) ==
    [channel_id |-> channel_id,
     channel_identifier |-> reg.channel_identifier,
     channel_title |-> reg.channel_title,
     last_updated |-> now,
     last_video_count |-> 0,
     feed_config |-> ConfigOrEmpty(reg.feed_config),
     user_id |-> reg.user_id,
     api_key |-> reg.api_key,
     query_count |-> 0,
     last_queried |-> NoValue]

\* reg holds the arguments channel_identifier, channel_title, feed_config,
\* user_id and api_key of the call
register_feed(channel_id, reg) ==
    \E now \in Nows :
        /\ call = Idle
        /\ before' = Tables
        /\ clock' = now
        /\ feeds' = InsertOrReplaceFeed(feeds, channel_id, FeedRow(reg, now))
        /\ call' = [op |-> "register_feed", channel_id |-> channel_id,
                    reg |-> reg, now |-> now]
        /\ ret' = Returned(RegisteredFeed(channel_id, reg, now))
        /\ UNCHANGED videos

\* ---- store_videos ----
\* mutant: the existence check is skipped, every dict counts as new
IsNewVideo_NoLookup(vt, video_id) == TRUE

\* "SELECT video_id FROM videos WHERE video_id = ?" found no row
IsNewVideo(vt, video_id) == video_id \notin DOMAIN vt

\* publishedAt parsed, or now when fromisoformat raises ValueError
ParsePublishedAt(published_str, now) ==
    IF published_str = BadDate THEN now ELSE fromisoformat(published_str)

\* mutant: first_seen is stamped anew on every upsert
FirstSeenOf_Restamped(vt, video_id, now) == now

\* first_seen of the row to write: now for a new id, else the stored value
FirstSeenOf(vt, video_id, now) ==
    IF IsNewVideo(vt, video_id) THEN now ELSE fromisoformat(vt[video_id].first_seen)

\* the values of INSERT OR REPLACE INTO videos for one dict of the batch
VideoRow(vt, video, channel_id, now) ==
    [channel_id |-> channel_id,
     title |-> video.title,
     published_at |-> isoformat(ParsePublishedAt(video.publishedAt, now)),
     view_count |-> video.viewCount,
     first_seen |-> isoformat(FirstSeenOf(vt, video.id, now))]

\* INSERT OR REPLACE: the row with this primary key is replaced or added
InsertOrReplace(vt, video_id, row) ==
    [v \in DOMAIN vt \cup {video_id} |-> IF v = video_id THEN row ELSE vt[v]]

\* the for loop over the batch inside the transaction, from position i on;
\* vt is the videos table as the open connection sees it
RECURSIVE StoreLoop(_, _, _, _, _, _)
StoreLoop(vt, batch, i, channel_id, now, new_count) ==
    IF i > Len(batch)
    THEN [videos |-> vt, new_count |-> new_count, raised |-> ""]
    ELSE IF ~batch[i].wellformed
    THEN [videos |-> vt, new_count |-> new_count, raised |-> "KeyError"]
    ELSE StoreLoop(InsertOrReplace(vt, batch[i].id, VideoRow(vt, batch[i], channel_id, now)),
                   batch, i + 1, channel_id, now,
                   IF IsNewVideo(vt, batch[i].id) THEN new_count + 1 ELSE new_count)

\* mutant: the count is taken over the whole table
TotalCount_AllChannels(vt, channel_id) == Cardinality(DOMAIN vt)

\* "SELECT COUNT(*) FROM videos WHERE channel_id = ?"
TotalCount(vt, channel_id) == Cardinality(VideosOf(vt, channel_id))

\* mutant: the UPDATE sets the count only
UpdateFeed_CountOnly(ft, channel_id, now, total_count) ==
    [c \in DOMAIN ft |->
        IF c = channel_id
        THEN [ft[c] EXCEPT !.last_video_count = total_count]
        ELSE ft[c]]

\* "UPDATE feeds SET last_updated = ?, last_video_count = ? WHERE channel_id = ?"
UpdateFeed(ft, channel_id, now, total_count) ==
    [c \in DOMAIN ft |->
        IF c = channel_id
        THEN [ft[c] EXCEPT !.last_updated = isoformat(now),
                           !.last_video_count = total_count]
        ELSE ft[c]]

\* mutant: the writes made before the exception are committed
VideosAfter_NoRollback(vt, loop) == loop.videos

\* what the "with sqlite3.connect(...) as conn" block leaves in the videos
\* table: the connection commits on normal exit and rolls back on an exception
VideosAfter(vt, loop) == IF loop.raised = "" THEN loop.videos ELSE vt

store_videos(channel_id, batch) ==
    \E now \in Nows :
        LET loop == StoreLoop(videos, batch, 1, channel_id, now, 0)
            total_count == TotalCount(loop.videos, channel_id)
        IN  /\ call = Idle
            /\ before' = Tables
            /\ clock' = now
            /\ call' = [op |-> "store_videos", channel_id |-> channel_id,
                        videos |-> batch, now |-> now]
            /\ videos' = VideosAfter(videos, loop)
            /\ IF loop.raised = ""
               THEN /\ feeds' = UpdateFeed(feeds, channel_id, now, total_count)
                    /\ ret' = Returned([new_count |-> loop.new_count,
                                        total_count |-> total_count])
               ELSE /\ feeds' = feeds
                    /\ ret' = Raised(loop.raised)

\* ---- store_videos under an interrupt ----
\* KeyboardInterrupt is raised between two statements of store_videos.  The
\* points that differ in what the open transaction holds: after the k-th
\* INSERT OR REPLACE of the loop (k = 0: before the first), after the UPDATE of
\* the feed row and before conn.commit(), and after conn.commit(): the points
\* 0..Len(batch) + 2.

\* mutant: the connection is left without a rollback, the pending writes stay
ConnExit_KeepPending(stored, pending, committed) == pending

\* Connection.__exit__ when an exception leaves the with block: the open
\* transaction is rolled back; after conn.commit() there is none
ConnExit(stored, pending, committed) == IF committed THEN pending ELSE stored

\* the tables store_videos leaves when the interrupt is raised at point at
StoreVideosInterrupted(ft, vt, channel_id, batch, now, at) ==
    LET n == Len(batch)
        loop == StoreLoop(vt, SubSeq(batch, 1, IF at < n THEN at ELSE n), 1,
                          channel_id, now, 0)
        pending == [feeds |-> IF at > n
                              THEN UpdateFeed(ft, channel_id, now,
                                              TotalCount(loop.videos, channel_id))
                              ELSE ft,
                    videos |-> loop.videos]
    IN  ConnExit([feeds |-> ft, videos |-> vt], pending, at = n + 2)

\* KeyboardInterrupt is not an Exception: no handler between store_videos and
\* main takes it, and no statement that writes to the database runs after it
store_videos_interrupted(channel_id, batch, at) ==
    /\ call = Idle
    /\ at \in 0..(Len(batch) + 2)
    /\ \A i \in 1..Len(batch) : i <= at => batch[i].wellformed
    /\ \E now \in Nows :
        \E done \in {StoreVideosInterrupted(feeds, videos, channel_id, batch, now, at)} :
            /\ before' = Tables
            /\ clock' = now
            /\ feeds' = done.feeds
            /\ videos' = done.videos
            /\ call' = [op |-> "store_videos_interrupted", channel_id |-> channel_id,
                        videos |-> batch, now |-> now, at |-> at]
            /\ ret' = Raised("KeyboardInterrupt")

\* ---- get_feed ----
\* "SELECT ... FROM feeds WHERE channel_id = ?": the row, or None
SelectFeed(ft, channel_id) ==
    IF channel_id \in DOMAIN ft THEN ft[channel_id] ELSE NoValue

\* "datetime.fromisoformat(row[9]) if row[9] else None"
ParseOptional(s) == IF s = NoValue THEN NoValue ELSE Some(fromisoformat(s[1]))

\* the StoredFeed built from a selected row, with the query_count and
\* last_queried the caller computed
StoredFeedOf(channel_id, row, query_count, last_queried) ==
    [channel_id |-> channel_id,
     channel_identifier |-> row.channel_identifier,
     channel_title |-> row.channel_title,
     last_updated |-> fromisoformat(row.last_updated),
     last_video_count |-> row.last_video_count,
     feed_config |-> json_loads(row.feed_config),
     user_id |-> row.user_id,
     api_key |-> row.api_key,
     query_count |-> query_count,
     last_queried |-> last_queried]

\* mutant: the UPDATE sets last_queried only
TouchFeed_StampOnly(ft, channel_id, now) ==
    [c \in DOMAIN ft |->
        IF c = channel_id
        THEN [ft[c] EXCEPT !.last_queried = Some(isoformat(now))]
        ELSE ft[c]]

\* "UPDATE feeds SET query_count = query_count + 1, last_queried = ? WHERE channel_id = ?"
TouchFeed(ft, channel_id, now) ==
    [c \in DOMAIN ft |->
        IF c = channel_id
        THEN [ft[c] EXCEPT !.query_count = @ + 1,
                           !.last_queried = Some(isoformat(now))]
        ELSE ft[c]]

get_feed(channel_id, increment_counter) ==
    LET row == SelectFeed(feeds, channel_id)
    IN  /\ call = Idle
        /\ before' = Tables
        /\ UNCHANGED videos
        /\ IF row = NoValue
           THEN /\ call' = [op |-> "get_feed", channel_id |-> channel_id,
                            increment_counter |-> increment_counter, now |-> clock]
                /\ ret' = Returned(NoValue)
                /\ UNCHANGED <<feeds, clock>>
           ELSE IF increment_counter
           THEN \E now \in Nows :
                /\ row.query_count < MaxQueries
                /\ clock' = now
                /\ feeds' = TouchFeed(feeds, channel_id, now)
                /\ call' = [op |-> "get_feed", channel_id |-> channel_id,
                            increment_counter |-> increment_counter, now |-> now]
                /\ ret' = Returned(Some(StoredFeedOf(channel_id, row,
                                                     row.query_count + 1, Some(now))))
           ELSE /\ call' = [op |-> "get_feed", channel_id |-> channel_id,
                            increment_counter |-> increment_counter, now |-> clock]
                /\ ret' = Returned(Some(StoredFeedOf(channel_id, row, row.query_count,
                                                     ParseOptional(row.last_queried))))
                /\ UNCHANGED <<feeds, clock>>

\* ---- get_videos_since ----
\* mutant: published_at >= ? in place of published_at > ?
VideosSince_Inclusive(vt, channel_id, since) ==
    {v \in VideosOf(vt, channel_id) :
        since = NoValue \/ ~TextLess(vt[v].published_at, isoformat(since[1]))}

\* the WHERE clause: channel_id = ? [AND published_at > ?]
VideosSince(vt, channel_id, since) ==
    {v \in VideosOf(vt, channel_id) :
        since = NoValue \/ TextLess(isoformat(since[1]), vt[v].published_at)}

\* ORDER BY published_at DESC over the selected ids
RECURSIVE OrderByPublishedDesc(_, _)
OrderByPublishedDesc(vt, ids) ==
    IF ids = {} THEN <<>>
    ELSE LET top == CHOOSE v \in ids :
                        \A w \in ids : ~TextLess(vt[v].published_at, vt[w].published_at)
         IN  <<top>> \o OrderByPublishedDesc(vt, ids \ {top})

\* a row as the StoredVideo the caller gets
StoredVideo(vt, v) ==
    [video_id |-> v,
     channel_id |-> vt[v].channel_id,
     title |-> vt[v].title,
     published_at |-> fromisoformat(vt[v].published_at),
     view_count |-> vt[v].view_count,
     first_seen |-> fromisoformat(vt[v].first_seen)]

SinceInputs == {NoValue} \cup {Some(t) : t \in -1..MaxTime}

get_videos_since(channel_id, since) ==
    LET rows == OrderByPublishedDesc(videos, VideosSince(videos, channel_id, since))
    IN  /\ call = Idle
        /\ before' = Tables
        /\ call' = [op |-> "get_videos_since", channel_id |-> channel_id, since |-> since]
        /\ ret' = Returned([i \in 1..Len(rows) |-> StoredVideo(videos, rows[i])])
        /\ UNCHANGED <<feeds, videos, clock>>

\* ---- get_new_videos_since_last_update ----
\* mutant: the watermark of the feed is not passed on
SinceLastUpdate_NoCutoff(feed) == NoValue

\* the since argument of the inner get_videos_since call: feed.last_updated
SinceLastUpdate(feed) == Some(feed.last_updated)

\* mutant: new is what was first seen at or after the watermark
NewVideosSinceLastUpdate_FirstSeen(ft, vt, channel_id) ==
    IF SelectFeed(ft, channel_id) = NoValue THEN <<>>
    ELSE LET rows == OrderByPublishedDesc(vt,
                        {v \in VideosOf(vt, channel_id) :
                            ~TextLess(vt[v].first_seen, ft[channel_id].last_updated)})
         IN  [i \in 1..Len(rows) |-> StoredVideo(vt, rows[i])]

\* the list get_new_videos_since_last_update returns on given tables
NewVideosSinceLastUpdate(ft, vt, channel_id) ==
    LET row == SelectFeed(ft, channel_id)
        \* get_feed(channel_id, increment_counter=False)
        feed == StoredFeedOf(channel_id, row, row.query_count,
                             ParseOptional(row.last_queried))
        rows == OrderByPublishedDesc(vt, VideosSince(vt, channel_id, SinceLastUpdate(feed)))
    IN  IF row = NoValue THEN <<>>
        ELSE [i \in 1..Len(rows) |-> StoredVideo(vt, rows[i])]

get_new_videos_since_last_update(channel_id) ==
    /\ call = Idle
    /\ before' = Tables
    /\ call' = [op |-> "get_new_videos_since_last_update", channel_id |-> channel_id]
    /\ ret' = Returned(NewVideosSinceLastUpdate(feeds, videos, channel_id))
    /\ UNCHANGED <<feeds, videos, clock>>

\* ---- FeedManager.update_feed_config ----
\* get_all_feeds(): the StoredFeed of every row (the order is taken below)
AllFeeds(ft) ==
    {StoredFeedOf(c, ft[c], ft[c].query_count, ParseOptional(ft[c].last_queried)) :
        c \in DOMAIN ft}

\* the feeds that can be element [0] of a list in ORDER BY channel_title
FirstByTitle(fs) == {f \in fs : \A g \in fs : f.channel_title <= g.channel_title}

\* dict.update(): the items of u replace those of d with the same key
DictUpdate(d, u) == {p \in d : \A q \in u : q[1] # p[1]} \cup u

\* the feed the search and the owner check settle on with matching_feeds[0] = first:
\* Some(feed), or NoValue where the method returns False
FeedToUpdate(matching, first, user_id) ==
    IF Cardinality(matching) > 1 /\ user_id = NoValue THEN {NoValue}
    ELSE IF user_id # NoValue /\ first.user_id # user_id[1]
    THEN IF Cardinality(matching) > 1
         THEN LET user_feeds == {f \in matching : f.user_id = user_id[1]}
              IN  IF user_feeds = {} THEN {NoValue}
                  ELSE {Some(f) : f \in FirstByTitle(user_feeds)}
         ELSE {NoValue}
    ELSE {Some(first)}

UpdateInputs == [channel_identifier : Sources \cup {Handle(k) : k \in 1..NumRegistrations},
                 user_id : {NoValue, Some("DefaultUser"), Some("alice")},
                 config_updates : {EmptyDict, {<<"oldest_first", FALSE>>}}]

update_feed_config(channel_identifier, user_id, config_updates) ==
    LET matching == {f \in AllFeeds(feeds) :
                        \/ f.channel_identifier = channel_identifier
                        \/ f.channel_id = channel_identifier}
        found == IF matching = {} THEN {NoValue}
                 ELSE UNION {FeedToUpdate(matching, first, user_id) :
                                first \in FirstByTitle(matching)}
    IN  \E target \in found :
        /\ call = Idle
        /\ before' = Tables
        /\ UNCHANGED videos
        /\ IF target = NoValue
           THEN /\ call' = [op |-> "update_feed_config", channel_id |-> NoValue,
                            now |-> clock]
                /\ ret' = Returned(FALSE)
                /\ UNCHANGED <<feeds, clock>>
           ELSE \E now \in Nows :
                LET feed == target[1]
                    reg == [channel_identifier |-> feed.channel_identifier,
                            channel_title |-> feed.channel_title,
                            feed_config |-> Some(DictUpdate(feed.feed_config, config_updates)),
                            user_id |-> feed.user_id,
                            api_key |-> feed.api_key]
                IN  /\ clock' = now
                    /\ feeds' = InsertOrReplaceFeed(feeds, feed.channel_id, FeedRow(reg, now))
                    /\ call' = [op |-> "update_feed_config",
                                channel_id |-> Some(feed.channel_id), now |-> now]
                    /\ ret' = Returned(TRUE)

\* ---- remove_feed ----
\* mutant: the videos of the feed are not deleted
DeleteVideosOf_Kept(vt, channel_id) == vt

\* "DELETE FROM videos WHERE channel_id = ?"
DeleteVideosOf(vt, channel_id) ==
    [v \in DOMAIN vt \ VideosOf(vt, channel_id) |-> vt[v]]

\* "DELETE FROM feeds WHERE channel_id = ?"
DeleteFeed(ft, channel_id) == [c \in DOMAIN ft \ {channel_id} |-> ft[c]]

remove_feed(channel_id) ==
    /\ call = Idle
    /\ before' = Tables
    /\ videos' = DeleteVideosOf(videos, channel_id)
    /\ feeds' = DeleteFeed(feeds, channel_id)
    /\ call' = [op |-> "remove_feed", channel_id |-> channel_id]
    \* result.rowcount > 0 of the DELETE on feeds
    /\ ret' = Returned(channel_id \in DOMAIN feeds)
    /\ UNCHANGED clock

\* ---- cleanup_old_videos ----
\* datetime.replace(hour=0, minute=0, second=0, microsecond=0)
Midnight(t) == t - (t % TicksPerDay)

\* datetime.day: the clock runs within one month that starts at tick 0
DayOfMonth(t) == (t \div TicksPerDay) + 1

\* datetime.replace(day=d) raises ValueError unless d is a day of the month
\* (d never exceeds the current day here, so only the lower end can fail)
ReplaceDayRaises(t, d) == d < 1

\* datetime.replace(day=d) on a datetime of the month
ReplaceDay(t, d) == t + (d - DayOfMonth(t)) * TicksPerDay

\* mutant: published_at <= ? in place of published_at < ?
OlderThan_Inclusive(vt, cutoff) ==
    {v \in DOMAIN vt : ~TextLess(isoformat(cutoff), vt[v].published_at)}

\* "DELETE FROM videos WHERE published_at < ?": the ids deleted
OlderThan(vt, cutoff) == {v \in DOMAIN vt : TextLess(vt[v].published_at, isoformat(cutoff))}

CleanupDays == (1..MaxDays) \cup {DefaultDays}

\* mutant: the purge also recounts last_video_count of every feed
cleanup_old_videos_Recount(days) ==
    \E now \in Nows :
        LET midnight == Midnight(now)
            day == DayOfMonth(midnight) - days
        IN  /\ call = Idle
            /\ before' = Tables
            /\ clock' = now
            /\ IF ReplaceDayRaises(midnight, day)
               THEN /\ call' = [op |-> "cleanup_old_videos", days |-> days, now |-> now,
                                cutoff |-> NoValue]
                    /\ ret' = Raised("ValueError")
                    /\ UNCHANGED <<videos, feeds>>
               ELSE LET cutoff == ReplaceDay(midnight, day)
                        deleted == OlderThan(videos, cutoff)
                    IN  /\ call' = [op |-> "cleanup_old_videos", days |-> days, now |-> now,
                                    cutoff |-> Some(cutoff)]
                        /\ videos' = [v \in DOMAIN videos \ deleted |-> videos[v]]
                        /\ ret' = Returned(Cardinality(deleted))
                        /\ feeds' = [c \in DOMAIN feeds |->
                                        [feeds[c] EXCEPT !.last_video_count =
                                            Cardinality(VideosOf(videos', c))]]

cleanup_old_videos(days) ==
    \E now \in Nows :
        LET midnight == Midnight(now)
            day == DayOfMonth(midnight) - days
        IN  /\ call = Idle
            /\ before' = Tables
            /\ clock' = now
            /\ IF ReplaceDayRaises(midnight, day)
               THEN /\ call' = [op |-> "cleanup_old_videos", days |-> days, now |-> now,
                                cutoff |-> NoValue]
                    /\ ret' = Raised("ValueError")
                    /\ UNCHANGED videos
               ELSE LET cutoff == ReplaceDay(midnight, day)
                        deleted == OlderThan(videos, cutoff)
                    IN  /\ call' = [op |-> "cleanup_old_videos", days |-> days, now |-> now,
                                    cutoff |-> Some(cutoff)]
                        /\ videos' = [v \in DOMAIN videos \ deleted |-> videos[v]]
                                            \* result.rowcount
                        /\ ret' = Returned(Cardinality(deleted))
            /\ UNCHANGED feeds

\* ---------------------------------------------------------------------------
\* IncrementalFeedUpdater (incremental_updater.py).  The YouTube API, the RSS
\* serializer and the file system are outside the program: what they do in one
\* pass over a channel is the stage at which the first of them raises, if any,
\* and the list of dicts the fetch returns.  A call of the updater runs within
\* one tick of the clock.
\* ---------------------------------------------------------------------------
\* ChannelConfig: the channel identifier and the oldest_first flag
ChannelConfig(channel, oldest_first) == [channel |-> channel, oldest_first |-> oldest_first]

\* the ChannelConfig of the k-th channel of CHANNELS
ConfigOf(k) == ChannelConfig(Handle(k), k = 2)

\* resolve_channel_id: the channel id the API resolves an identifier to
ResolveChannel(channel) == channel - NumSources

\* the external calls of one pass over a channel, in the order they are made
Stages == {"resolve", "fetch", "resolve_again", "build_rss", "write"}

\* feed_result.videos as the fetch can return it
FetchedBatches == {<<RawVideo(1, 1)>>, <<MalformedVideo>>}

\* what the outside does in one pass: fails_at is the stage that raises ("" for
\* none), videos the list fetched when the fetch returns (a list with a
\* malformed dict only in a pass where no stage raises)
Envs ==
    {[fails_at |-> s, videos |-> <<>>] : s \in {"resolve", "fetch"}}
        \cup {[fails_at |-> s, videos |-> <<RawVideo(1, 1)>>] :
                    s \in Stages \ {"resolve", "fetch"}}
        \cup {[fails_at |-> "", videos |-> b] : b \in FetchedBatches}

\* the feed_config dict of a first run (the keys with boolean values)
FeedConfigOf(config) ==
    {<<"include_captions", FALSE>>, <<"allow_generated_captions", FALSE>>,
     <<"oldest_first", config.oldest_first>>}

\* store_videos as a function of the tables: the tables it leaves and what it
\* raised
StoreVideos(ft, vt, channel_id, batch, now) ==
    LET loop == StoreLoop(vt, batch, 1, channel_id, now, 0)
    IN  [videos |-> VideosAfter(vt, loop),
         feeds |-> IF loop.raised = ""
                   THEN UpdateFeed(ft, channel_id, now, TotalCount(loop.videos, channel_id))
                   ELSE ft,
         raised |-> loop.raised]

\* mutant: what was fetched before the failure is stored all the same
StoreAfterFetch_Always(ft, vt, channel_id, env, now) ==
    LET st == StoreVideos(ft, vt, channel_id, <<RawVideo(1, 1)>>, now)
    IN  [feeds |-> st.feeds, videos |-> st.videos, ok |-> FALSE,
         store_calls |-> <<channel_id>>, batches |-> <<env.videos>>]

\* update_feed_incremental after the feed lookup and the first-run
\* registration: the fetch, then store_videos with what it returned
StoreAfterFetch(ft, vt, channel_id, env, now) ==
    IF env.fails_at = "fetch"
    THEN [feeds |-> ft, videos |-> vt, ok |-> FALSE, store_calls |-> <<>>,
          batches |-> <<>>]
    ELSE LET st == StoreVideos(ft, vt, channel_id, env.videos, now)
         IN  [feeds |-> st.feeds, videos |-> st.videos, ok |-> st.raised = "",
              store_calls |-> <<channel_id>>, batches |-> <<env.videos>>]

\* mutant: every pass is reported as an update
ReportAction_Update(is_first_run) == "update"

\* FeedReport.action of the two branches
ReportAction(is_first_run) == IF is_first_run THEN "add" ELSE "update"

\* the calls update_feed_incremental makes to the API, the storage and the
\* reporter, in the order it makes them
CallsMade(is_first_run, fetched, ok) ==
    <<"resolve_channel_id", "get_feed">>
        \o (IF is_first_run THEN <<"register_feed">> ELSE <<>>)
        \o <<"generate_feed_for_channel">>
        \o (IF fetched THEN <<"store_videos">> ELSE <<>>)
        \o (IF ok THEN <<"report_feed_operation">> ELSE <<>>)

\* update_feed_incremental as a function of the tables: the tables it leaves,
\* what it returns (ok), the store_videos calls it made with their batches,
\* whether it took the first-run branch, the calls it made and the action of
\* the FeedReport it sent
UpdateFeedIncremental(ft, vt, config, api_key, user_id, env, now) ==
    IF env.fails_at = "resolve"
    THEN [feeds |-> ft, videos |-> vt, ok |-> FALSE, store_calls |-> <<>>,
          batches |-> <<>>, is_first_run |-> NoValue,
          calls |-> <<"resolve_channel_id">>, report |-> NoValue]
    ELSE LET channel_id == ResolveChannel(config.channel)
             is_first_run == SelectFeed(ft, channel_id) = NoValue
             reg == [channel_identifier |-> config.channel,
                     channel_title |-> channel_id,
                     feed_config |-> Some(FeedConfigOf(config)),
                     user_id |-> user_id,
                     api_key |-> Some(api_key)]
             registered == IF is_first_run
                           THEN InsertOrReplaceFeed(ft, channel_id, FeedRow(reg, now))
                           ELSE ft
         IN  CHOOSE result \in
                {[feeds |-> done.feeds, videos |-> done.videos, ok |-> done.ok,
                  store_calls |-> done.store_calls, batches |-> done.batches,
                  is_first_run |-> Some(first),
                  calls |-> CallsMade(first, done.store_calls # <<>>, done.ok),
                  report |-> IF done.ok THEN Some(ReportAction(first)) ELSE NoValue] :
                    done \in {StoreAfterFetch(registered, vt, channel_id, env, now)},
                    first \in {is_first_run}} : TRUE

update_feed_incremental(config, api_key, user_id, env) ==
    \E now \in Nows :
        LET done == UpdateFeedIncremental(feeds, videos, config, api_key, user_id, env, now)
        IN  /\ call = Idle
            /\ before' = Tables
            /\ clock' = now
            /\ feeds' = done.feeds
            /\ videos' = done.videos
            /\ call' = [op |-> "update_feed_incremental", config |-> config, env |-> env,
                        now |-> now, store_calls |-> done.store_calls,
                        batches |-> done.batches, is_first_run |-> done.is_first_run,
                        calls |-> done.calls, report |-> done.report]
            /\ ret' = Returned(done.ok)

\* ---- generate_rss_from_storage ----
\* list.reverse()
Reverse(seq) == [i \in 1..Len(seq) |-> seq[Len(seq) + 1 - i]]

\* "if max_items and len(videos) > max_items: videos = videos[:max_items]";
\* None and 0 are both false
LimitItems(items, max_items) ==
    IF max_items # NoValue /\ max_items[1] # 0 /\ Len(items) > max_items[1]
    THEN SubSeq(items, 1, max_items[1])
    ELSE items

\* the list of video dicts handed to build_rss
VideoDicts(vt, channel_id, config, max_items) ==
    LET newest_first == OrderByPublishedDesc(vt, VideosSince(vt, channel_id, NoValue))
        ordered == IF config.oldest_first THEN Reverse(newest_first) ELSE newest_first
    IN  LimitItems(ordered, max_items)

\* build_rss: the document has one item per dict, in the order given
build_rss(video_dicts) == [items |-> video_dicts]

\* mutant: an exception of build_rss is raised to the caller
RssOrNone_Propagated(video_dicts, build_raises) ==
    IF build_raises THEN Raised("Exception") ELSE Returned(Some(build_rss(video_dicts)))

\* the try block around the body: any exception is logged and None returned
RssOrNone(video_dicts, build_raises) ==
    IF build_raises THEN Returned(NoValue) ELSE Returned(Some(build_rss(video_dicts)))

\* generate_rss_from_storage as a function of the tables: the feeds table it
\* leaves (get_feed counts the query) and what it returns
GenerateRssFromStorage(ft, vt, channel_id, config, max_items, build_raises, now) ==
    IF SelectFeed(ft, channel_id) = NoValue
    THEN [feeds |-> ft, ret |-> Returned(NoValue)]
    ELSE [feeds |-> TouchFeed(ft, channel_id, now),
          ret |-> RssOrNone(VideoDicts(vt, channel_id, config, max_items), build_raises)]

MaxItemsInputs == {NoValue} \cup {Some(n) : n \in 0..MaxItems}

generate_rss_from_storage(channel_id, config, max_items, build_raises) ==
    \E now \in Nows :
        LET done == GenerateRssFromStorage(feeds, videos, channel_id, config, max_items,
                                           build_raises, now)
        IN  /\ call = Idle
            /\ before' = Tables
            /\ feeds' = done.feeds
            /\ \A c \in DOMAIN feeds' : feeds'[c].query_count <= MaxQueries
            /\ clock' = IF channel_id \in DOMAIN feeds THEN now ELSE clock
            /\ call' = [op |-> "generate_rss_from_storage", channel_id |-> channel_id,
                        config |-> config, max_items |-> max_items,
                        build_raises |-> build_raises]
            /\ ret' = done.ret
            /\ UNCHANGED videos

\* ---- update_all_feeds, update_all_stored_feeds ----
\* one entry of the list a cycle runs over: the ChannelConfig, the channel id
\* the document is generated for, the API key (None when there is none), the
\* user, whether the channel is resolved again before the document is
\* generated, and what the outside does during the pass
Job(config, channel_id, api_key, user_id, resolve_again, env) ==
    [config |-> config, channel_id |-> channel_id, api_key |-> api_key,
     user_id |-> user_id, resolve_again |-> resolve_again, env |-> env]

\* the body of the for loop for one entry: the tables it leaves, whether the
\* entry succeeded, and the store_videos calls made
ProcessJob(ft, vt, job, now) ==
    IF job.api_key = NoValue
    THEN [feeds |-> ft, videos |-> vt, ok |-> FALSE, store_calls |-> <<>>]
    ELSE LET upd == UpdateFeedIncremental(ft, vt, job.config, job.api_key[1], job.user_id,
                                          job.env, now)
             gen == GenerateRssFromStorage(upd.feeds, upd.videos, job.channel_id, job.config,
                                           NoValue, job.env.fails_at = "build_rss", now)
         IN  IF ~upd.ok \/ (job.resolve_again /\ job.env.fails_at = "resolve_again")
             THEN [upd EXCEPT !.ok = FALSE]
             ELSE [feeds |-> gen.feeds, videos |-> upd.videos,
                   ok |-> gen.ret.value # NoValue /\ job.env.fails_at # "write",
                   store_calls |-> upd.store_calls]

\* mutant: the loop ends at the first entry that fails
RECURSIVE CycleLoop_Abort(_, _, _, _, _, _, _)
CycleLoop_Abort(ft, vt, jobs, i, now, success, log) ==
    IF i > Len(jobs) \/ ~success
    THEN [feeds |-> ft, videos |-> vt, success |-> success, log |-> log]
    ELSE LET done == ProcessJob(ft, vt, jobs[i], now)
         IN  CycleLoop_Abort(done.feeds, done.videos, jobs, i + 1, now, success /\ done.ok,
                             Append(log, [channel |-> jobs[i].config.channel,
                                          ok |-> done.ok,
                                          store_calls |-> done.store_calls]))

\* "for ... in ...: try: ... except Exception: success = False" from entry i
\* on; log holds, for every entry the loop has taken up, its channel, whether
\* it succeeded and its store_videos calls
RECURSIVE CycleLoop(_, _, _, _, _, _, _)
CycleLoop(ft, vt, jobs, i, now, success, log) ==
    IF i > Len(jobs)
    THEN [feeds |-> ft, videos |-> vt, success |-> success, log |-> log]
    ELSE LET done == ProcessJob(ft, vt, jobs[i], now)
         IN  CycleLoop(done.feeds, done.videos, jobs, i + 1, now, success /\ done.ok,
                       Append(log, [channel |-> jobs[i].config.channel,
                                    ok |-> done.ok,
                                    store_calls |-> done.store_calls]))

\* the lists of CHANNELS: distinct channels in any order
ConfigLists ==
    {l \in UNION {[1..n -> {ConfigOf(k) : k \in Sources}] : n \in 0..NumSources} :
        \A i, j \in 1..Len(l) : i # j => l[i] # l[j]}

\* a cycle as an action: jobs is the list the loop runs over
RunCycle(op, jobs, now) ==
    /\ call = Idle
    /\ \E done \in {CycleLoop(feeds, videos, jobs, 1, now, TRUE, <<>>)} :
        /\ before' = Tables
        /\ clock' = now
        /\ feeds' = done.feeds
        /\ \A c \in DOMAIN feeds' : feeds'[c].query_count <= MaxQueries
        /\ videos' = done.videos
        /\ call' = [op |-> op, jobs |-> jobs, now |-> now, log |-> done.log]
        /\ ret' = Returned(done.success)

\* the entries of an update_all_feeds cycle
ConfigJobs(configs, default_api_key, envs) ==
    [i \in 1..Len(configs) |->
        Job(configs[i], ResolveChannel(configs[i].channel), Some(default_api_key),
            "DefaultUser", TRUE, envs[i])]

update_all_feeds(configs, default_api_key, envs) ==
    \E now \in Nows :
        RunCycle("update_all_feeds", ConfigJobs(configs, default_api_key, envs), now)

\* the lists get_all_feeds() can return: every feed once, ORDER BY channel_title
FeedLists(ft) ==
    {l \in [1..Cardinality(DOMAIN ft) -> AllFeeds(ft)] :
        \A i, j \in 1..Len(l) :
            i < j => l[i] # l[j] /\ l[i].channel_title <= l[j].channel_title}

\* dict.get(key, default)
DictGet(d, key, default) ==
    IF \E p \in d : p[1] = key THEN (CHOOSE p \in d : p[1] = key)[2] ELSE default

\* "feed.api_key or fallback_api_key"
KeyOrFallback(api_key, fallback_api_key) ==
    IF api_key # NoValue THEN api_key ELSE fallback_api_key

\* the passes over stored feeds make no second resolve
StoredEnvs == {e \in Envs : e.fails_at # "resolve_again"}

\* the entries of an update_all_stored_feeds cycle over the list stored
StoredJobs(stored, fallback_api_key, envs) ==
    [i \in 1..Len(stored) |->
        Job(ChannelConfig(stored[i].channel_identifier,
                          DictGet(stored[i].feed_config, "oldest_first", FALSE)),
            stored[i].channel_id,
            KeyOrFallback(stored[i].api_key, fallback_api_key),
            stored[i].user_id, FALSE, envs[i])]

update_all_stored_feeds(fallback_api_key, envs) ==
    call = Idle /\ \E now \in Nows, stored \in FeedLists(feeds) :
        RunCycle("update_all_stored_feeds", StoredJobs(stored, fallback_api_key, envs), now)

\* ---- the duration codec ----
\* A text is the sequence of its characters.
DigitChars == <<"0", "1", "2", "3", "4", "5", "6", "7", "8", "9">>

\* int() of one digit
DigitValue(c) == (CHOOSE d \in 1..10 : DigitChars[d] = c) - 1

\* f"{n}" for n >= 0
RECURSIVE Format(_)
Format(n) == IF n < 10 THEN <<DigitChars[n + 1]>>
             ELSE Format(n \div 10) \o <<DigitChars[(n % 10) + 1]>>

\* int(text[from..to]) of a run of digits, acc the value of the digits read
RECURSIVE IntOf(_, _, _, _)
IntOf(text, from, to, acc) ==
    IF from > to THEN acc
    ELSE IntOf(text, from + 1, to, 10 * acc + DigitValue(text[from]))

\* mutant: the seconds are never written
SecsShown_Never(hours, minutes, secs) == FALSE

\* "if secs > 0 or (hours == 0 and minutes == 0)"
SecsShown(hours, minutes, secs) == secs > 0 \/ (hours = 0 /\ minutes = 0)

\* IncrementalFeedUpdater._seconds_to_iso8601
SecondsToIso8601(seconds) ==
    IF seconds <= 0 THEN <<"P", "T", "0", "S">>
    ELSE LET hours == seconds \div 3600
             minutes == (seconds % 3600) \div 60
             secs == seconds % 60
         IN  <<"P", "T">>
                \o (IF hours > 0 THEN Format(hours) \o <<"H">> ELSE <<>>)
                \o (IF minutes > 0 THEN Format(minutes) \o <<"M">> ELSE <<>>)
                \o (IF SecsShown(hours, minutes, secs) THEN Format(secs) \o <<"S">> ELSE <<>>)

\* the end of the run of digits that starts at pos: the first position from
\* pos on that holds no digit
RECURSIVE DigitsEnd(_, _)
DigitsEnd(text, pos) ==
    IF pos <= Len(text) /\ (\E d \in 1..10 : DigitChars[d] = text[pos])
    THEN DigitsEnd(text, pos + 1)
    ELSE pos

\* one optional group "(?:(\d+)X)?" of the pattern tried at pos: the value of
\* the group ("int(v) if v else 0") and the position after it
MatchGroup(text, pos, letter) ==
    LET e == DigitsEnd(text, pos)
    IN  IF e > pos /\ e <= Len(text) /\ text[e] = letter
        THEN [value |-> IntOf(text, pos, e - 1, 0), next |-> e + 1]
        ELSE [value |-> 0, next |-> pos]

\* pattern.match(iso_dur): the groups are tried in the order of the pattern,
\* the T part only behind a "T", and the match has to reach the end
MatchDuration(text) ==
    IF Len(text) = 0 \/ text[1] # "P" THEN [matched |-> FALSE]
    ELSE LET years == MatchGroup(text, 2, "Y")
             months == MatchGroup(text, years.next, "M")
             weeks == MatchGroup(text, months.next, "W")
             days == MatchGroup(text, weeks.next, "D")
             time == days.next <= Len(text) /\ text[days.next] = "T"
             hours == IF time THEN MatchGroup(text, days.next + 1, "H")
                      ELSE [value |-> 0, next |-> days.next]
             minutes == IF time THEN MatchGroup(text, hours.next, "M") ELSE hours
             seconds == IF time THEN MatchGroup(text, minutes.next, "S") ELSE hours
         IN  IF seconds.next = Len(text) + 1
             THEN [matched |-> TRUE, weeks |-> weeks.value, days |-> days.value,
                   hours |-> hours.value, minutes |-> minutes.value,
                   seconds |-> seconds.value]
             ELSE [matched |-> FALSE]

\* FeedStorage._iso8601_duration_to_seconds
Iso8601DurationToSeconds(iso_dur) ==
    LET m == MatchDuration(iso_dur)
    IN  IF ~m.matched THEN 0
        ELSE m.weeks * 7 * 24 * 3600 + m.days * 24 * 3600 + m.hours * 3600
                + m.minutes * 60 + m.seconds

\* the durations given to the writer
SecondsInputs == (0 - 2)..MaxSeconds

\* texts of the API that the writer does not produce
OtherDurations ==
    {<<"P", "1", "D">>, <<"P", "1", "W", "T", "1", "M">>, <<"P", "T">>,
     <<"P", "T", "1", "M", "1", "H">>, <<"1", "S">>, <<>>}

_seconds_to_iso8601(seconds) ==
    /\ call = Idle
    /\ call' = [op |-> "_seconds_to_iso8601", seconds |-> seconds]
    /\ ret' = Returned(SecondsToIso8601(seconds))
    /\ before' = Tables
    /\ UNCHANGED <<feeds, videos, clock>>

\* the parser reads a text the writer has just returned (written_from is the
\* number it was written from) or another text
_iso8601_duration_to_seconds(iso_dur, written_from) ==
    /\ call' = [op |-> "_iso8601_duration_to_seconds", iso_dur |-> iso_dur,
                written_from |-> written_from]
    /\ ret' = Returned(Iso8601DurationToSeconds(iso_dur))
    /\ before' = Tables
    /\ UNCHANGED <<feeds, videos, clock>>

\* ---- the .env batch updater (update_feeds.py) ----
\* A path is whether it is absolute and the sequence of its parts.  The
\* updater runs in the directory /srv; OUTPUT_DIRECTORY is "feeds".
Path(absolute, parts) == [absolute |-> absolute, parts |-> parts]

BaseDir == Path(FALSE, <<"feeds">>)

\* str.lower() of a name
LowerName(name) ==
    CASE name = "A.xml" -> "a.xml"
      [] name = "Feeds" -> "feeds"
      [] OTHER -> name

\* the values of "output" in CHANNELS
OutputValues ==
    {Path(FALSE, <<"a.xml">>), Path(FALSE, <<"A.xml">>), Path(FALSE, <<"b.xml">>),
     Path(FALSE, <<"sub", "..", "a.xml">>), Path(TRUE, <<"srv", "Feeds", "b.xml">>)}

\* the lists parse_channels_config can return; a ChannelConfig is its channel
\* and its output
OutputConfigLists ==
    UNION {[1..n -> [channel : {Handle(k) : k \in Sources}, output : OutputValues]] :
            n \in 0..MaxChannels}

\* ChannelConfig.resolved_path
resolved_path(config, base_directory) ==
    IF config.output.absolute THEN config.output
    ELSE Path(base_directory.absolute, base_directory.parts \o config.output.parts)

\* ".." takes the part before it away, from position i on; done holds the
\* parts kept so far
RECURSIVE Normalize(_, _, _)
Normalize(parts, i, done) ==
    IF i > Len(parts) THEN done
    ELSE IF parts[i] = ".."
    THEN Normalize(parts, i + 1,
                   IF done = <<>> THEN done ELSE SubSeq(done, 1, Len(done) - 1))
    ELSE Normalize(parts, i + 1, Append(done, parts[i]))

\* Path.resolve(): absolute, below the working directory unless absolute
\* already, without ".." (the tree has no symbolic links)
resolve(path) ==
    Path(TRUE, Normalize(IF path.absolute THEN path.parts ELSE <<"srv">> \o path.parts,
                         1, <<>>))

\* mutant: the key keeps the case of the path
OutputKey_CaseKept(config, base_dir) == resolve(resolved_path(config, base_dir)).parts

\* "key = resolved.as_posix().lower()"
OutputKey(config, base_dir) ==
    LET parts == resolve(resolved_path(config, base_dir)).parts
    IN  [i \in 1..Len(parts) |-> LowerName(parts[i])]

\* ensure_unique_outputs raises ValueError: a key is seen a second time
ensure_unique_outputs(configs, base_dir) ==
    \E i, j \in 1..Len(configs) :
        i < j /\ OutputKey(configs[i], base_dir) = OutputKey(configs[j], base_dir)

\* load_configuration raises ValueError
LoadConfigurationRaises(configs, api_key) ==
    \/ configs = <<>>
    \/ ensure_unique_outputs(configs, BaseDir)
    \/ api_key = NoValue

\* the file that output_path.write_text writes: the operating system follows
\* the path from the working directory, and on a file system that ignores
\* case, names that differ in case only are the same file
FileWritten(config, base_dir, ignores_case) ==
    LET parts == resolve(resolved_path(config, base_dir)).parts
    IN  IF ignores_case THEN [i \in 1..Len(parts) |-> LowerName(parts[i])] ELSE parts

\* run_update_cycle from entry i on: success, and the files written with the
\* channel each was written for; envs[i] is the call that raises in the pass
\* over entry i ("generate", "write", or "" for none)
RECURSIVE RunUpdateCycle(_, _, _, _, _, _)
RunUpdateCycle(configs, envs, ignores_case, i, success, writes) ==
    IF i > Len(configs) THEN [success |-> success, writes |-> writes]
    ELSE IF envs[i] # ""
    THEN RunUpdateCycle(configs, envs, ignores_case, i + 1, FALSE, writes)
    ELSE RunUpdateCycle(configs, envs, ignores_case, i + 1, success,
                        Append(writes, [channel |-> configs[i].channel,
                                        file |-> FileWritten(configs[i], BaseDir,
                                                             ignores_case)]))

\* main of update_feeds without --loop
update_feeds_main(configs, api_key, ignores_case, envs) ==
    /\ call = Idle
    /\ \E done \in {IF LoadConfigurationRaises(configs, api_key)
                     THEN [code |-> 2, writes |-> <<>>]
                     ELSE LET cycle == RunUpdateCycle(configs, envs, ignores_case, 1,
                                                      TRUE, <<>>)
                          IN  [code |-> IF cycle.success THEN 0 ELSE 1,
                               writes |-> cycle.writes]} :
        /\ call' = [op |-> "update_feeds_main", configs |-> configs, api_key |-> api_key,
                    ignores_case |-> ignores_case, envs |-> envs, writes |-> done.writes]
        /\ ret' = Returned(done.code)
    /\ before' = Tables
    /\ UNCHANGED <<feeds, videos, clock>>

\* ---- FeedUpdater (feed_retrievers/feed_updater.py) ----
\* what the outside does in the pass over one feed: whether a call of the
\* YouTube API raises inside _fetch_new_videos, the video details it returns
\* otherwise, and whether writing the RSS file raises
FetchEnvs ==
    {[fetch_raises |-> TRUE, videos |-> <<>>, write_raises |-> FALSE]}
        \cup {[fetch_raises |-> FALSE, videos |-> b, write_raises |-> w] :
                    b \in {<<>>, <<RawVideo(1, 1)>>}, w \in BOOLEAN}

\* FeedStorage.store_video: the row of one StoredVideo is written
store_video(vt, stored_video) ==
    InsertOrReplace(vt, stored_video.video_id,
                    [channel_id |-> stored_video.channel_id,
                     title |-> stored_video.title,
                     published_at |-> isoformat(stored_video.published_at),
                     view_count |-> stored_video.view_count,
                     first_seen |-> isoformat(stored_video.first_seen)])

\* FeedStorage.update_feed_last_updated: the watermark of the feed becomes now
update_feed_last_updated(ft, channel_id, now) ==
    [c \in DOMAIN ft |->
        IF c = channel_id THEN [ft[c] EXCEPT !.last_updated = isoformat(now)] ELSE ft[c]]

\* the video_data dict of one video of the details
VideoData(video, channel_id, now) ==
    [video_id |-> video.id,
     channel_id |-> channel_id,
     title |-> video.title,
     published_at |-> fromisoformat(video.publishedAt),
     view_count |-> IF video.viewCount = NoValue THEN Some(0) ELSE video.viewCount,
     first_seen |-> now]

\* _fetch_new_videos: the details of the ids the channel does not hold yet;
\* an exception of the API is caught inside and the empty list returned
FetchNewVideos(vt, feed, env, now) ==
    IF env.fetch_raises THEN <<>>
    ELSE LET existing_video_ids == VideosOf(vt, feed.channel_id)
         IN  SelectSeq([i \in 1..Len(env.videos) |->
                            VideoData(env.videos[i], feed.channel_id, now)],
                       LAMBDA d : d.video_id \notin existing_video_ids)

\* "for video_data in new_videos: self.storage.store_video(...)" from i on
RECURSIVE StoreEach(_, _, _)
StoreEach(vt, new_videos, i) ==
    IF i > Len(new_videos) THEN vt
    ELSE StoreEach(store_video(vt, new_videos[i]), new_videos, i + 1)

\* the body of the for loop of _update_feeds_once for one feed: the tables it
\* leaves, whether success_count was incremented, and the FeedReport sent
\* (none when the feed was skipped for want of an API key)
UpdateOneFeed(ft, vt, feed, fallback_api_key, env, now) ==
    IF KeyOrFallback(feed.api_key, fallback_api_key) = NoValue
    THEN [feeds |-> ft, videos |-> vt, counted |-> FALSE, report |-> NoValue]
    ELSE LET new_videos == FetchNewVideos(vt, feed, env, now)
             stored == StoreEach(vt, new_videos, 1)
         IN  IF env.write_raises
             THEN [feeds |-> ft, videos |-> stored, counted |-> FALSE,
                   report |-> Some([error |-> TRUE, new_videos |-> 0])]
             ELSE [feeds |-> update_feed_last_updated(ft, feed.channel_id, now),
                   videos |-> stored, counted |-> TRUE,
                   report |-> Some([error |-> FALSE, new_videos |-> Len(new_videos)])]

\* the for loop of _update_feeds_once from feed i of the list on; log holds
\* for every feed taken up its channel_id, whether it was counted and its
\* report
RECURSIVE UpdateFeedsLoop(_, _, _, _, _, _, _, _, _)
UpdateFeedsLoop(ft, vt, stored_feeds, fallback_api_key, envs, i, now, success_count, log) ==
    IF i > Len(stored_feeds)
    THEN [feeds |-> ft, videos |-> vt, success_count |-> success_count, log |-> log]
    ELSE LET done == UpdateOneFeed(ft, vt, stored_feeds[i], fallback_api_key, envs[i], now)
         IN  UpdateFeedsLoop(done.feeds, done.videos, stored_feeds, fallback_api_key, envs,
                             i + 1, now,
                             IF done.counted THEN success_count + 1 ELSE success_count,
                             Append(log, [channel_id |-> stored_feeds[i].channel_id,
                                          counted |-> done.counted,
                                          report |-> done.report]))

_update_feeds_once(fallback_api_key, envs) ==
    /\ call = Idle
    /\ \E now \in Nows, stored_feeds \in FeedLists(feeds) :
        \E done \in {UpdateFeedsLoop(feeds, videos, stored_feeds, fallback_api_key, envs,
                                       1, now, 0, <<>>)} :
            /\ before' = Tables
            /\ clock' = now
            /\ feeds' = done.feeds
            /\ videos' = done.videos
            /\ call' = [op |-> "_update_feeds_once", fallback_api_key |-> fallback_api_key,
                        envs |-> envs, now |-> now, success_count |-> done.success_count,
                        log |-> done.log]
            /\ ret' = Returned(stored_feeds = <<>> \/ done.success_count > 0)

\* ---- main (single pass) ----
\* the values of CHANNELS: blank, JSON that is not a list, or a JSON list of
\* channels (which can be empty)
ChannelsValues ==
    {[kind |-> "blank", configs |-> <<>>], [kind |-> "not_a_list", configs |-> <<>>]}
        \cup {[kind |-> "list", configs |-> l] : l \in ConfigLists}

\* parse_channels_config raises ValueError on JSON that is not a list
ParseRaises(channels) == channels.kind = "not_a_list"

\* int() of REFRESH_INTERVAL_SECONDS raises ValueError unless it is a number
IntRaises(text) == text # "3600"

\* the command line and environment of a single pass; CHANNELS is not read
\* with --use-stored-feeds
MainArgs ==
    {a \in [use_stored_feeds : BOOLEAN, channels : ChannelsValues,
             api_key : {NoValue, Some("key")}, refresh_interval : {"3600", "soon"}] :
        a.use_stored_feeds => a.channels.kind = "blank"}

\* the try block of the env-config mode ends in "return 2"
ConfigurationError(args) ==
    /\ ~args.use_stored_feeds
    /\ \/ args.channels.kind = "blank"
       \/ ParseRaises(args.channels)
       \/ args.channels.configs = <<>>
       \/ args.api_key = NoValue

\* mutant: the result of the cycle is not looked at
ExitCode_Zero(success) == 0

\* "return 0 if success else 1"
ExitCode(success) == IF success THEN 0 ELSE 1

\* a call of main that ends before the cycle
MainEnds(args, result) ==
    /\ call' = [op |-> "main", args |-> args, ran |-> FALSE, jobs |-> <<>>, log |-> <<>>]
    /\ ret' = result
    /\ before' = Tables
    /\ UNCHANGED <<feeds, videos, clock>>

main(args, envs) ==
    /\ call = Idle
    /\ IF ConfigurationError(args) THEN MainEnds(args, Returned(2))
       ELSE IF IntRaises(args.refresh_interval) THEN MainEnds(args, Raised("ValueError"))
       ELSE \E now \in Nows, stored \in FeedLists(feeds) :
            LET jobs == IF args.use_stored_feeds
                        THEN StoredJobs(stored, args.api_key, envs)
                        ELSE ConfigJobs(args.channels.configs, args.api_key[1], envs)
            IN  \E done \in {CycleLoop(feeds, videos, jobs, 1, now, TRUE, <<>>)} :
                /\ before' = Tables
                /\ clock' = now
                /\ feeds' = done.feeds
                /\ \A c \in DOMAIN feeds' : feeds'[c].query_count <= MaxQueries
                /\ videos' = done.videos
                /\ call' = [op |-> "main", args |-> args, ran |-> TRUE, jobs |-> jobs,
                            log |-> done.log]
                /\ ret' = Returned(ExitCode(done.success))

\* ---- main (continuous mode) ----
\* The loop of main is a process of its own: call holds its position (pc) and
\* its locals, clock is time.time().  One unit of time is one tick.
\* the command line of the continuous mode: interval_seconds is what
\* "args.interval or int(...)" gave
LoopArgs ==
    [use_stored_feeds : BOOLEAN,
     channels : {[kind |-> "list", configs |-> <<ConfigOf(1)>>]},
     api_key : {Some("key")},
     interval_seconds : 0..MaxInterval]

\* what the outside does in a pass of the continuous mode
LoopEnvs == {e \in Envs : e.fails_at \in {"fetch", ""} /\ e.videos # <<MalformedVideo>>}

\* mutant: the loop sleeps the whole interval after every cycle
SleepTime_WholeInterval(interval_seconds, elapsed) == interval_seconds

\* "sleep_time = max(0, interval_seconds - elapsed)"
SleepTime(interval_seconds, elapsed) ==
    IF interval_seconds - elapsed > 0 THEN interval_seconds - elapsed ELSE 0

\* the jobs of one cycle of main
LoopJobs(args, stored, envs) ==
    IF args.use_stored_feeds
    THEN StoredJobs(stored, args.api_key, envs)
    ELSE ConfigJobs(args.channels.configs, args.api_key[1], envs)

\* what the outside does in every pass of one cycle
LoopEnvLists(args, ft) ==
    [1..(IF args.use_stored_feeds THEN Cardinality(DOMAIN ft)
                                  ELSE Len(args.channels.configs)) -> LoopEnvs]

\* main reaches "while True": the configuration is good and loop is set
main_loop_enter(args) ==
    /\ call = Idle
    /\ clock <= MaxTime
    /\ ~ConfigurationError(args)
    /\ call' = [op |-> "main_loop", pc |-> "top", args |-> args, exit_code |-> 0,
                sleep_time |-> 0, cycles |-> <<>>]
    /\ before' = Tables
    /\ ret' = Returned(NoValue)
    /\ UNCHANGED <<feeds, videos, clock>>

\* one cycle of the loop, from "start_time = time.time()" to the computation
\* of sleep_time; the cycle takes elapsed ticks and stamps its writes with
\* a time of the cycle
main_loop_cycle(elapsed) ==
    /\ call.op = "main_loop" /\ call.pc = "top"
    /\ Len(call.cycles) < MaxCycles
    /\ clock + elapsed <= MaxLoopTime
    /\ \E now \in {clock, clock + elapsed}, stored \in FeedLists(feeds),
          envs \in LoopEnvLists(call.args, feeds) :
        \E done \in {CycleLoop(feeds, videos, LoopJobs(call.args, stored, envs), 1, now,
                                 TRUE, <<>>)} :
            /\ feeds' = done.feeds
            /\ \A c \in DOMAIN feeds' : feeds'[c].query_count <= MaxQueries
            /\ videos' = done.videos
            /\ clock' = clock + elapsed
            /\ call' = [call EXCEPT
                    !.pc = "sleep",
                    !.exit_code = IF ~done.success THEN 1 ELSE call.exit_code,
                    !.sleep_time = SleepTime(call.args.interval_seconds, elapsed),
                    !.cycles = Append(call.cycles,
                                      [start_time |-> clock, elapsed |-> elapsed,
                                       success |-> done.success])]
            /\ UNCHANGED <<before, ret>>

\* "time.sleep(sleep_time)" returns
main_loop_sleep ==
    /\ call.op = "main_loop" /\ call.pc = "sleep"
    /\ clock + call.sleep_time <= MaxLoopTime
    /\ clock' = clock + call.sleep_time
    /\ call' = [call EXCEPT !.pc = "top"]
    /\ UNCHANGED <<feeds, videos, before, ret>>

\* KeyboardInterrupt during a cycle, after k entries of the list: the cycle
\* does not return, success and exit_code are not assigned
main_loop_interrupt_cycle(k) ==
    /\ call.op = "main_loop" /\ call.pc = "top"
    /\ \E now \in {clock}, stored \in FeedLists(feeds),
          envs \in LoopEnvLists(call.args, feeds) :
        \E done \in {CycleLoop(feeds, videos,
                                 [i \in 1..k |-> LoopJobs(call.args, stored, envs)[i]], 1,
                                 now, TRUE, <<>>) :
                            x \in {k} \cap 0..(Len(LoopJobs(call.args, stored, envs)) - 1)} :
            /\ feeds' = done.feeds
            /\ \A c \in DOMAIN feeds' : feeds'[c].query_count <= MaxQueries
            /\ videos' = done.videos
            /\ clock' = now
            /\ call' = [call EXCEPT !.pc = "done"]
            /\ ret' = Returned(call.exit_code)
            /\ UNCHANGED before

\* KeyboardInterrupt during time.sleep: "return exit_code"
main_loop_interrupt_sleep ==
    /\ call.op = "main_loop" /\ call.pc = "sleep"
    /\ call' = [call EXCEPT !.pc = "done"]
    /\ ret' = Returned(call.exit_code)
    /\ UNCHANGED <<feeds, videos, clock, before>>

\* ---- the caller ----
\* the caller takes the result; the next call can be made
TakeResult ==
    /\ call # Idle
    /\ call' = Idle
    /\ before' = NoTables
    /\ ret' = Returned(NoValue)
    /\ UNCHANGED <<feeds, videos, clock>>

Next ==
    \/ \E c \in Sources : register_feed(c, Registration(1))
    \/ \E c \in Sources, b \in Batches : store_videos(c, b)
    \/ \E c \in Sources, t \in SinceInputs : get_videos_since(c, t)
    \/ \E c \in Sources : remove_feed(c)
    \/ \E d \in CleanupDays : cleanup_old_videos(d)
    \/ TakeResult

Spec == Init /\ [][Next]_vars

\* ---- the continuous mode ----
\* the caller takes the result of a call that has ended
TakeExit ==
    /\ IF call.op = "main_loop" THEN call.pc = "done" ELSE TRUE
    /\ TakeResult

NextLoop ==
    \/ \E args \in LoopArgs : main_loop_enter(args)
    \/ \E elapsed \in 0..MaxElapsed : main_loop_cycle(elapsed)
    \/ main_loop_sleep
    \/ \E k \in 0..(NumSources - 1) : main_loop_interrupt_cycle(k)
    \/ main_loop_interrupt_sleep
    \/ TakeExit

SpecLoop == Init /\ [][NextLoop]_vars

\* ---- the duration codec ----
NextCodec ==
    \/ \E seconds \in SecondsInputs : _seconds_to_iso8601(seconds)
    \/ /\ call.op = "_seconds_to_iso8601"
       /\ _iso8601_duration_to_seconds(ret.value, Some(call.seconds))
    \/ /\ call = Idle
       /\ \E iso_dur \in OtherDurations : _iso8601_duration_to_seconds(iso_dur, NoValue)
    \/ TakeResult

SpecCodec == Init /\ [][NextCodec]_vars

\* ---- the .env batch updater ----
NextBatch ==
    \/ \E configs \in OutputConfigLists, api_key \in {NoValue, Some("key")},
          ignores_case \in BOOLEAN :
            \E envs \in [1..Len(configs) -> {"", "generate", "write"}] :
                update_feeds_main(configs, api_key, ignores_case, envs)
    \/ TakeResult

SpecBatch == Init /\ [][NextBatch]_vars

\* ---- the cycles of FeedUpdater ----
NextFeedUpdater ==
    \/ \E c \in Sources : register_feed(c, Registration(c))
    \/ \E fallback_api_key \in {NoValue, Some("key")} :
            \E envs \in [1..Cardinality(DOMAIN feeds) -> FetchEnvs] :
                _update_feeds_once(fallback_api_key, envs)
    \/ TakeResult

SpecFeedUpdater == Init /\ [][NextFeedUpdater]_vars

\* ---- store_videos with and without an interrupt ----
\* the batches stored: new dicts, a revision of a stored one, a dict that
\* store_videos cannot read after one it can
InterruptBatches ==
    {<<>>, <<RawVideo(1, 1)>>, <<RawVideo(1, 1), RawVideo(2, 1)>>,
     <<RawVideo(2, 1), RawVideo(1, 2)>>, <<RawVideo(1, 1), MalformedVideo>>}

NextInterrupt ==
    \/ \E c \in Sources : register_feed(c, Registration(1))
    \/ \E c \in Sources, b \in InterruptBatches : store_videos(c, b)
    \/ \E c \in Sources, b \in InterruptBatches, at \in 0..(MaxBatch + 2) :
            store_videos_interrupted(c, b, at)
    \/ TakeResult

SpecInterrupt == Init /\ [][NextInterrupt]_vars

\* ---- the feed registry: registrations, lookups and the watermark ----
\* a dict whose publishedAt is the latest instant of the model
LateVideo(id) ==
    [id |-> id, wellformed |-> TRUE, title |-> 1,
     publishedAt |-> isoformat(MaxTime), viewCount |-> NoValue]

\* batches of at most one dict: an old video or a late one
RegistryBatches == {<<>>} \cup {<<v>> : v \in {RawVideo(1, 1), LateVideo(NumVideos)}}

\* registrations and their re-registration against stored items
NextWatermark ==
    \/ \E c \in Sources, k \in 1..NumRegistrations : register_feed(c, Registration(k))
    \/ \E u \in UpdateInputs :
            update_feed_config(u.channel_identifier, u.user_id, u.config_updates)
    \/ \E c \in Sources : get_new_videos_since_last_update(c)
    \/ \E c \in Sources, b \in RegistryBatches : store_videos(c, b)
    \/ \E d \in CleanupDays : cleanup_old_videos(d)
    \/ TakeResult

SpecWatermark == Init /\ [][NextWatermark]_vars

\* the purge against feeds whose counters and counts have moved
NextPurge ==
    \/ \E c \in Sources : register_feed(c, Registration(1))
    \/ \E c \in Sources, touch \in BOOLEAN : get_feed(c, touch)
    \/ \E c \in Sources, b \in RegistryBatches : store_videos(c, b)
    \/ \E d \in CleanupDays : cleanup_old_videos(d)
    \/ TakeResult

SpecPurge == Init /\ [][NextPurge]_vars

\* feed assembly from stored items
\* batches of dicts with distinct ids, all well-formed
AssemblyBatches ==
    {b \in UNION {[1..n -> {RawVideo(id, 1) : id \in VideoIds}] : n \in 1..MaxBatch} :
        \A i, j \in 1..Len(b) : i # j => b[i].id # b[j].id}

NextAssembly ==
    \/ \E c \in Sources : register_feed(c, Registration(1))
    \/ \E c \in Sources, b \in AssemblyBatches : store_videos(c, b)
    \/ \E c \in Sources, oldest_first \in BOOLEAN, m \in MaxItemsInputs,
            build_raises \in BOOLEAN :
            generate_rss_from_storage(c, ChannelConfig(Handle(c), oldest_first), m,
                                      build_raises)
    \/ TakeResult

SpecAssembly == Init /\ [][NextAssembly]_vars

\* the update cycles
\* what the outside does in a call of update_feed_incremental alone
UpdateEnvs == {e \in Envs : e.fails_at \in {"resolve", "fetch", ""}}

NextUpdater ==
    \/ \E c \in Sources : register_feed(c, Registration(c))
    \/ \E k \in Sources, env \in UpdateEnvs :
            update_feed_incremental(ConfigOf(k), "key", "DefaultUser", env)
    \/ \E configs \in ConfigLists :
            \E envs \in [1..Len(configs) -> Envs] : update_all_feeds(configs, "key", envs)
    \/ \E fallback_api_key \in {NoValue, Some("key")} :
            \E envs \in [1..Cardinality(DOMAIN feeds) -> StoredEnvs] :
                update_all_stored_feeds(fallback_api_key, envs)
    \/ TakeResult

SpecUpdater == Init /\ [][NextUpdater]_vars

\* single passes of the program
\* what the outside does during the passes of the cycle main runs
MainEnvs(args) ==
    IF ConfigurationError(args) \/ IntRaises(args.refresh_interval) THEN {<<>>}
    ELSE IF args.use_stored_feeds THEN [1..Cardinality(DOMAIN feeds) -> StoredEnvs]
    ELSE [1..Len(args.channels.configs) -> Envs]

NextMain ==
    \/ \E c \in Sources : register_feed(c, Registration(c))
    \/ \E args \in MainArgs : \E envs \in MainEnvs(args) : main(args, envs)
    \/ TakeResult

SpecMain == Init /\ [][NextMain]_vars

\* registrations and lookups, no items stored
NextRegistry ==
    \/ \E c \in Sources, k \in 1..NumRegistrations : register_feed(c, Registration(k))
    \/ \E c \in Sources, touch \in BOOLEAN : get_feed(c, touch)
    \/ \E u \in UpdateInputs :
            update_feed_config(u.channel_identifier, u.user_id, u.config_updates)
    \/ \E c \in Sources : remove_feed(c)
    \/ TakeResult

SpecRegistry == Init /\ [][NextRegistry]_vars

\* ---------------------------------------------------------------------------
\* Properties.  A state in which a call has just returned holds the call, its
\* result, the tables before it (before) and the tables after it.
\* ---------------------------------------------------------------------------
Did(op) == call.op = op
Succeeded == ret.raised = ""

\* the ids stored with a source id in a videos table
StoredUnder(vt, c) == {v \in DOMAIN vt : vt[v].channel_id = c}

\* the distinct ids of a batch, and the last dict of the batch with a given id
BatchIds(batch) == {batch[i].id : i \in 1..Len(batch)}
LastOf(batch, v) ==
    batch[CHOOSE i \in 1..Len(batch) :
            batch[i].id = v /\ \A j \in (i + 1)..Len(batch) : batch[j].id # v]

\* store_videos has returned normally for a source that was registered
StoredToRegistered ==
    Did("store_videos") /\ Succeeded /\ call.channel_id \in DOMAIN before.feeds

\* every stored item was held by a registered source before the call
HeldByRegistered ==
    \A v \in DOMAIN before.videos : before.videos[v].channel_id \in DOMAIN before.feeds

\* B2 partially overlaps the items B1 the source held before the call
PartialOverlap ==
    LET B1 == StoredUnder(before.videos, call.channel_id)
        B2 == BatchIds(call.videos)
    IN  B1 \cap B2 # {} /\ B2 \ B1 # {}

\* C1 as stated: for a registered source holding the items B1 (all items of
\* the store being held by registered sources), store_videos with a batch B2
\* that partially overlaps B1 returns new_count = |B2 \ B1| and
\* total_count = |B1 union B2|.
C1_DedupAgainstSource ==
    (StoredToRegistered /\ HeldByRegistered /\ PartialOverlap) =>
        LET B1 == StoredUnder(before.videos, call.channel_id)
            B2 == BatchIds(call.videos)
        IN  /\ ret.value.new_count = Cardinality(B2 \ B1)
            /\ ret.value.total_count = Cardinality(B1 \cup B2)

\* C1 amended: new_count is the number of ids of B2 that no source held before
\* the call (which is |B2 \ B1| when no id of B2 is held by another source),
\* and total_count = |B1 union B2|.
C1_DedupAgainstStore ==
    (StoredToRegistered /\ PartialOverlap) =>
        LET B1 == StoredUnder(before.videos, call.channel_id)
            B2 == BatchIds(call.videos)
        IN  /\ ret.value.new_count = Cardinality(B2 \ DOMAIN before.videos)
            /\ ret.value.total_count = Cardinality(B1 \cup B2)

\* C1 witness: a batch of two ids was stored, one held by the source and one
\* held by no source before the call
C1_Witness ==
    /\ StoredToRegistered /\ PartialOverlap
    /\ Cardinality(BatchIds(call.videos)) = 2
    /\ BatchIds(call.videos) \ DOMAIN before.videos # {}
    /\ ret.value.new_count = 1
    /\ ret.value.total_count = 2

\* C2: an id already stored adds nothing to new_count, keeps its first_seen,
\* and its title, view count and (parsable) publication time are those of the
\* latest dict of the batch with that id.
C2_IdempotentUpsert ==
    (Did("store_videos") /\ Succeeded) =>
        LET B2 == BatchIds(call.videos)
        IN  /\ ret.value.new_count = Cardinality(B2 \ DOMAIN before.videos)
            /\ \A v \in B2 \cap DOMAIN before.videos :
                LET given == LastOf(call.videos, v)
                IN  /\ v \in DOMAIN videos
                    /\ videos[v].first_seen = before.videos[v].first_seen
                    /\ videos[v].title = given.title
                    /\ videos[v].view_count = given.viewCount
                    /\ given.publishedAt # BadDate
                         => videos[v].published_at = given.publishedAt

\* C2 witness: a stored id was upserted at a later time with a changed title
\* and view count, and nothing in the batch was new
C2_Witness ==
    /\ Did("store_videos") /\ Succeeded
    /\ ret.value.new_count = 0
    /\ \E v \in BatchIds(call.videos) \cap DOMAIN before.videos :
        /\ before.videos[v].title # videos[v].title
        /\ before.videos[v].view_count # videos[v].view_count
        /\ fromisoformat(videos[v].first_seen) < call.now

\* C3: with every source involved registered, a stored item stays with the
\* source it was stored under, also when its id is upserted through another
\* source.
C3_NoReparenting ==
    (Did("store_videos") /\ Succeeded) =>
        \A v \in DOMAIN before.videos \cap DOMAIN videos :
            ({call.channel_id, before.videos[v].channel_id} \subseteq DOMAIN before.feeds)
                => videos[v].channel_id = before.videos[v].channel_id

\* C4: a store_videos call that raises leaves both tables as they were.
C4_AllOrNothing ==
    (Did("store_videos") /\ ~Succeeded) =>
        /\ videos = before.videos
        /\ feeds = before.feeds

\* C4 witness: the call raised on a malformed dict that followed a valid dict
\* whose id was not stored
C4_Witness ==
    /\ Did("store_videos") /\ ret.raised = "KeyError"
    /\ call.channel_id \in DOMAIN before.feeds
    /\ Len(call.videos) = 2
    /\ call.videos[1].wellformed /\ ~call.videos[2].wellformed
    /\ call.videos[1].id \notin DOMAIN before.videos

\* C5: total_count returned for a registered source is the number of items
\* then stored with that source id, and so is the source's last_video_count.
C5_TotalCountExact ==
    StoredToRegistered =>
        LET n == Cardinality(StoredUnder(videos, call.channel_id))
        IN  /\ ret.value.total_count = n
            /\ feeds[call.channel_id].last_video_count = n

\* C5 witness: the call returned a count of 1 while another source holds an
\* item too
C5_Witness ==
    /\ StoredToRegistered
    /\ ret.value.total_count = 1
    /\ \E v \in DOMAIN videos : videos[v].channel_id # call.channel_id

\* C6: after a store_videos call on a registered source last_updated is the
\* time of that call and not earlier than it was, whatever the batch held.
C6_Watermark ==
    StoredToRegistered =>
        LET c == call.channel_id
        IN  /\ fromisoformat(feeds[c].last_updated) = call.now
            /\ fromisoformat(feeds[c].last_updated) >= fromisoformat(before.feeds[c].last_updated)

\* C6 witness: a call with an empty batch moved last_updated to a later time
C6_Witness ==
    /\ StoredToRegistered
    /\ call.videos = <<>>
    /\ fromisoformat(before.feeds[call.channel_id].last_updated) < call.now
    /\ fromisoformat(feeds[call.channel_id].last_updated) = call.now

\* C7: get_videos_since returns each stored item of the source published
\* strictly after the cutoff (every item of the source without a cutoff) once,
\* newest first, and no item of another source.
C7_Window ==
    Did("get_videos_since") =>
        LET rows == ret.value
            expected ==
                {v \in DOMAIN videos :
                    /\ videos[v].channel_id = call.channel_id
                    /\ \/ call.since = NoValue
                       \/ fromisoformat(videos[v].published_at) > call.since[1]}
        IN  /\ {rows[i].video_id : i \in 1..Len(rows)} = expected
            /\ Len(rows) = Cardinality(expected)
            /\ \A i \in 1..Len(rows) :
                /\ rows[i].channel_id = call.channel_id
                /\ rows[i].published_at = fromisoformat(videos[rows[i].video_id].published_at)
            /\ \A i, j \in 1..Len(rows) :
                i < j => rows[i].published_at >= rows[j].published_at

\* C7 witness: with a cutoff, one item of the source published at the cutoff
\* was left out and a later one returned
C7_Witness ==
    /\ Did("get_videos_since")
    /\ call.since # NoValue
    /\ Len(ret.value) = 1
    /\ \E v \in DOMAIN videos :
        /\ videos[v].channel_id = call.channel_id
        /\ fromisoformat(videos[v].published_at) = call.since[1]

\* C8: remove_feed leaves no item with that source id and no feed row (get_feed
\* finds none), and returns whether a feed row existed.
C8_Cascade ==
    Did("remove_feed") =>
        /\ StoredUnder(videos, call.channel_id) = {}
        /\ SelectFeed(feeds, call.channel_id) = NoValue
        /\ ret.value = (call.channel_id \in DOMAIN before.feeds)

\* C8 witness: a registered source holding an item was removed
C8_Witness ==
    /\ Did("remove_feed")
    /\ ret.value = TRUE
    /\ StoredUnder(before.videos, call.channel_id) # {}

\* C9: when cleanup_old_videos has computed its cutoff and run, no remaining
\* item was published before the cutoff, every item published at or after it
\* is kept as it was, and the count returned is the number of items removed.
C9_PurgeBoundary ==
    (Did("cleanup_old_videos") /\ Succeeded) =>
        LET cutoff == call.cutoff[1]
        IN  /\ \A v \in DOMAIN videos : fromisoformat(videos[v].published_at) >= cutoff
            /\ \A v \in DOMAIN before.videos :
                fromisoformat(before.videos[v].published_at) >= cutoff
                    => v \in DOMAIN videos /\ videos[v] = before.videos[v]
            /\ ret.value = Cardinality(DOMAIN before.videos \ DOMAIN videos)

\* C9 witness: one item was removed and one published exactly at the cutoff
\* was kept
C9_Witness ==
    /\ Did("cleanup_old_videos") /\ Succeeded
    /\ ret.value = 1
    /\ \E v \in DOMAIN videos : fromisoformat(videos[v].published_at) = call.cutoff[1]

\* C10: for every days >= 1 and every date cleanup_old_videos returns, and its
\* cutoff is midnight of the day that lies days days before today.
C10_CleanupCompletes ==
    Did("cleanup_old_videos") =>
        /\ Succeeded
        /\ call.cutoff = Some(Midnight(call.now) - call.days * TicksPerDay)

\* C11: cleanup_old_videos changes no row of feeds (last_updated,
\* last_video_count, feed_config, query_count, last_queried and the rest are as
\* they were, whether it returns or raises), so a last_video_count can exceed
\* the number of items the source still holds; after the next store_videos call
\* on the source it is that number again.
C11_PurgeLeavesFeeds ==
    /\ Did("cleanup_old_videos") =>
            /\ DOMAIN feeds = DOMAIN before.feeds
            /\ \A c \in DOMAIN feeds : feeds[c] = before.feeds[c]
    /\ StoredToRegistered =>
            feeds[call.channel_id].last_video_count
                = Cardinality(StoredUnder(videos, call.channel_id))

\* C11 witness: the purge removed an item of a feed that had been queried, and
\* the feed's last_video_count now exceeds the items it holds
C11_Witness ==
    /\ Did("cleanup_old_videos") /\ Succeeded
    /\ ret.value >= 1
    /\ \E c \in DOMAIN feeds :
        /\ feeds[c].query_count > 0
        /\ feeds[c].last_video_count > Cardinality(StoredUnder(videos, c))

\* get_feed has returned the record of a feed that was registered
GotRegistered == Did("get_feed") /\ call.channel_id \in DOMAIN before.feeds

\* C12 as stated: get_feed with increment_counter returns the query_count
\* stored before the increment, the stored query_count is one higher after the
\* call and last_queried is the call time; without increment_counter neither
\* field changes.
C12_ReturnsPreIncrement ==
    GotRegistered =>
        LET c == call.channel_id
        IN  IF call.increment_counter
            THEN /\ ret.value[1].query_count = before.feeds[c].query_count
                 /\ feeds[c].query_count = before.feeds[c].query_count + 1
                 /\ feeds[c].last_queried = Some(isoformat(call.now))
            ELSE /\ feeds[c].query_count = before.feeds[c].query_count
                 /\ feeds[c].last_queried = before.feeds[c].last_queried

\* C12 amended: with increment_counter the record returned holds the
\* query_count after the increment (the stored value plus one, which is what the
\* table then holds) and last_queried = the call time, which is also stored;
\* nothing else in the table changes.  Without increment_counter the table is
\* unchanged and the record holds the stored query_count and last_queried.
C12_ReturnsPostIncrement ==
    GotRegistered =>
        LET c == call.channel_id
            old == before.feeds[c]
        IN  /\ Succeeded
            /\ IF call.increment_counter
               THEN /\ ret.value[1].query_count = old.query_count + 1
                    /\ ret.value[1].last_queried = Some(call.now)
                    /\ feeds = [before.feeds EXCEPT
                                    ![c] = [old EXCEPT
                                                !.query_count = old.query_count + 1,
                                                !.last_queried = Some(isoformat(call.now))]]
               ELSE /\ ret.value[1].query_count = old.query_count
                    /\ ret.value[1].last_queried = ParseOptional(old.last_queried)
                    /\ feeds = before.feeds

\* C12 witness: a feed queried once before was queried again at a later time,
\* and the record returned counts both queries
C12_Witness ==
    /\ GotRegistered /\ call.increment_counter
    /\ before.feeds[call.channel_id].query_count = 1
    /\ before.feeds[call.channel_id].last_queried # Some(isoformat(call.now))
    /\ ret.value[1].query_count = 2

\* the items of source c published after the source's last_updated: those
\* get_new_videos_since_last_update returns
NewItems(ft, vt, c) ==
    {v \in DOMAIN vt :
        /\ vt[v].channel_id = c
        /\ fromisoformat(vt[v].published_at) > fromisoformat(ft[c].last_updated)}

\* the source a call has re-registered: Some(c), or NoValue
Reregistered ==
    IF Did("register_feed") /\ call.channel_id \in DOMAIN before.feeds
    THEN Some(call.channel_id)
    ELSE IF Did("update_feed_config") THEN call.channel_id
    ELSE NoValue

\* C13: registering a source id again, through register_feed or through
\* update_feed_config, never moves last_updated back, and adds no item to what
\* get_new_videos_since_last_update returns for the source.
C13_ReregistrationKeepsWatermark ==
    Reregistered # NoValue =>
        LET c == Reregistered[1]
        IN  /\ c \in DOMAIN feeds /\ c \in DOMAIN before.feeds
            /\ fromisoformat(feeds[c].last_updated)
                    >= fromisoformat(before.feeds[c].last_updated)
            /\ NewItems(feeds, videos, c) \subseteq NewItems(before.feeds, before.videos, c)

\* C13 witness: register_feed on a registered source that had an item newer
\* than its last_updated moved last_updated forward
C13_Witness ==
    /\ Did("register_feed")
    /\ call.channel_id \in DOMAIN before.feeds
    /\ NewItems(before.feeds, before.videos, call.channel_id) # {}
    /\ fromisoformat(before.feeds[call.channel_id].last_updated) < call.now
    /\ feeds[call.channel_id].last_updated = isoformat(call.now)

\* C14: get_new_videos_since_last_update returns the items get_videos_since
\* returns for the source's last_updated (each item of the source published
\* after it once, newest first), changes neither table (query_count and
\* last_queried included), and returns the empty list for a source that is not
\* registered.
C14_NewSinceWatermark ==
    Did("get_new_videos_since_last_update") =>
        LET c == call.channel_id
            rows == ret.value
        IN  /\ Succeeded
            /\ feeds = before.feeds
            /\ videos = before.videos
            /\ IF c \notin DOMAIN feeds
               THEN rows = <<>>
               ELSE /\ {rows[i].video_id : i \in 1..Len(rows)} = NewItems(feeds, videos, c)
                    /\ Len(rows) = Cardinality(NewItems(feeds, videos, c))
                    /\ \A i \in 1..Len(rows) :
                        /\ rows[i].channel_id = c
                        /\ rows[i].published_at
                                = fromisoformat(videos[rows[i].video_id].published_at)
                    /\ \A i, j \in 1..Len(rows) :
                        i < j => rows[i].published_at >= rows[j].published_at

\* C14 witness: of two items of a registered source only the one published
\* after last_updated was returned
C14_Witness ==
    /\ Did("get_new_videos_since_last_update")
    /\ call.channel_id \in DOMAIN feeds
    /\ Cardinality(StoredUnder(videos, call.channel_id)) = 2
    /\ Len(ret.value) = 1

\* the arguments of a registration and a StoredFeed agree on the identifier,
\* the title, the configuration map (empty when none was given), the owner and
\* the credential
SameRegistration(reg, feed) ==
    /\ feed.channel_identifier = reg.channel_identifier
    /\ feed.channel_title = reg.channel_title
    /\ feed.feed_config = (IF reg.feed_config = NoValue THEN EmptyDict ELSE reg.feed_config[1])
    /\ feed.user_id = reg.user_id
    /\ feed.api_key = reg.api_key

\* C15: once register_feed has returned, the record get_feed builds from the
\* source's row has the identifier, title, configuration map, owner and
\* credential that were registered, last_video_count 0 and last_updated = the
\* registration time; get_feed returns the record of the row that is stored,
\* and for an id without a row it returns None without raising or writing.
C15_RegisterThenGet ==
    /\ Did("register_feed") =>
            LET c == call.channel_id
                row == SelectFeed(feeds, c)
            IN  /\ row # NoValue
                /\ LET feed == StoredFeedOf(c, row, row.query_count + 1, Some(call.now))
                   IN  /\ SameRegistration(call.reg, feed)
                       /\ feed.channel_id = c
                       /\ feed.last_video_count = 0
                       /\ feed.last_updated = call.now
    /\ Did("get_feed") =>
            LET c == call.channel_id
            IN  /\ Succeeded
                /\ IF c \in DOMAIN before.feeds
                   THEN LET row == before.feeds[c]
                            feed == ret.value[1]
                        IN  /\ feed.channel_id = c
                            /\ feed.channel_identifier = row.channel_identifier
                            /\ feed.channel_title = row.channel_title
                            /\ json_dumps(feed.feed_config) = row.feed_config
                            /\ feed.user_id = row.user_id
                            /\ feed.api_key = row.api_key
                            /\ feed.last_video_count = row.last_video_count
                            /\ isoformat(feed.last_updated) = row.last_updated
                   ELSE ret.value = NoValue /\ feeds = before.feeds

\* C15 witness: get_feed returned the record of a feed registered with a
\* configuration map, an owner of its own and a credential
C15_Witness ==
    /\ GotRegistered
    /\ SameRegistration(Registration(2), ret.value[1])
    /\ ret.value[1].last_video_count = 0
    /\ ret.value[1].last_updated = call.now

\* generate_rss_from_storage has returned for a source that has a feed row
Assembled == Did("generate_rss_from_storage") /\ call.channel_id \in DOMAIN before.feeds

\* C19 as stated: generate_rss_from_storage returns None for a source without
\* a feed row, and when build_rss raises the caller gets an outcome other than
\* that None.
C19_DistinctFailure ==
    Did("generate_rss_from_storage") =>
        IF call.channel_id \notin DOMAIN before.feeds
        THEN ret = Returned(NoValue)
        ELSE call.build_raises => ret # Returned(NoValue)

\* C19 amended: generate_rss_from_storage never raises; it returns None when
\* the source has no feed row and also when build_rss raises (the exception is
\* logged only), and the document otherwise.
C19_NoneOnFailure ==
    Did("generate_rss_from_storage") =>
        /\ Succeeded
        /\ ret.value = NoValue
                <=> (call.channel_id \notin DOMAIN before.feeds \/ call.build_raises)
        /\ call.channel_id \notin DOMAIN before.feeds => feeds = before.feeds

\* C19 witness: build_rss raised for a registered source holding an item, and
\* None came back
C19_Witness ==
    /\ Assembled /\ call.build_raises
    /\ StoredUnder(videos, call.channel_id) # {}
    /\ ret = Returned(NoValue)

\* C20: the items of the document are the stored items of the source newest
\* first, or oldest first when oldest_first is set, cut to the first N for every
\* cap N >= 0 given: never more than N items, and no item left out comes before
\* an item that is in.
C20_OrderedAndCapped ==
    (Assembled /\ ret.value # NoValue) =>
        LET c == call.channel_id
            S == StoredUnder(videos, c)
            items == ret.value[1].items
            At(v) == fromisoformat(videos[v].published_at)
            Before(v, w) == IF call.config.oldest_first THEN At(v) <= At(w) ELSE At(v) >= At(w)
            expected == IF call.max_items = NoValue \/ call.max_items[1] > Cardinality(S)
                        THEN Cardinality(S)
                        ELSE call.max_items[1]
        IN  /\ Len(items) = expected
            /\ \A i \in 1..Len(items) : items[i] \in S
            /\ \A i, j \in 1..Len(items) : i < j => items[i] # items[j] /\ Before(items[i], items[j])
            /\ \A v \in S : (\A i \in 1..Len(items) : items[i] # v)
                    => \A i \in 1..Len(items) : Before(items[i], v)

\* a cycle of update_all_feeds or update_all_stored_feeds has returned
DidCycle == Did("update_all_feeds") \/ Did("update_all_stored_feeds")

\* what makes the pass over one entry of a cycle fail: no API key, a stage of
\* the outside that raises, or a fetched dict store_videos cannot read
FailsBy(job) ==
    \/ job.api_key = NoValue
    \/ job.env.fails_at # ""
    \/ \E i \in 1..Len(job.env.videos) : ~job.env.videos[i].wellformed

\* C16: in one cycle of update_all_feeds or update_all_stored_feeds every entry
\* of the list (for the stored feeds: every feed row, once) is taken up exactly
\* once and in list order, whatever happened to the entries before it, and the
\* cycle returns False exactly when at least one entry failed.
C16_PerSourceIsolation ==
    DidCycle =>
        LET jobs == call.jobs
            log == call.log
        IN  /\ Succeeded
            /\ Len(log) = Len(jobs)
            /\ \A i \in 1..Len(jobs) :
                /\ log[i].channel = jobs[i].config.channel
                /\ log[i].ok = ~FailsBy(jobs[i])
            /\ ret.value = (\A i \in 1..Len(jobs) : ~FailsBy(jobs[i]))
            /\ Did("update_all_stored_feeds") =>
                /\ Len(jobs) = Cardinality(DOMAIN before.feeds)
                /\ {jobs[i].channel_id : i \in 1..Len(jobs)} = DOMAIN before.feeds

\* C16 witness: the first entry of a cycle failed, the second was taken up and
\* succeeded, and the cycle returned False
C16_Witness ==
    /\ DidCycle
    /\ Len(call.jobs) = 2
    /\ FailsBy(call.jobs[1]) /\ ~call.log[1].ok
    /\ call.log[2].ok
    /\ ret.value = FALSE

\* C17: when resolve_channel_id or the fetch raises, update_feed_incremental
\* makes no store_videos call, leaves the videos table as it was and returns
\* False; in a cycle no store_videos call is made for such an entry and the
\* entry fails.
C17_NoStoreAfterFailure ==
    /\ (Did("update_feed_incremental") /\ call.env.fails_at \in {"resolve", "fetch"}) =>
            /\ call.store_calls = <<>>
            /\ videos = before.videos
            /\ ret = Returned(FALSE)
    /\ DidCycle =>
            \A i \in 1..Len(call.jobs) :
                call.jobs[i].env.fails_at \in {"resolve", "fetch"} =>
                    call.log[i].store_calls = <<>> /\ ~call.log[i].ok

\* C17 witness: the fetch raised on the first run of a channel, after the feed
\* had been registered, and no item was stored
C17_Witness ==
    /\ Did("update_feed_incremental")
    /\ call.env.fails_at = "fetch"
    /\ DOMAIN feeds # DOMAIN before.feeds
    /\ videos = <<>>
    /\ ret = Returned(FALSE)

\* C18: a single pass of main returns 0 exactly when the cycle ran and every
\* entry succeeded, 1 when some entry of the cycle failed, and 2 on (and only
\* on) a configuration error of the env-config mode: CHANNELS blank, not
\* parsable or without channels, or no API key; then no cycle is run and the
\* tables are as they were.
C18_ExitCodes ==
    Did("main") =>
        LET args == call.args
            cfgerr == /\ ~args.use_stored_feeds
                      /\ \/ args.channels.kind # "list"
                         \/ args.channels.configs = <<>>
                         \/ args.api_key = NoValue
            failed == \E i \in 1..Len(call.jobs) : FailsBy(call.jobs[i])
        IN  /\ ret = Returned(0) <=> (call.ran /\ ~failed)
            /\ (call.ran /\ failed) => ret = Returned(1)
            /\ cfgerr <=> ret = Returned(2)
            /\ cfgerr => ~call.ran /\ feeds = before.feeds /\ videos = before.videos
            /\ call.ran => Len(call.log) = Len(call.jobs)

\* C18 witness: in env-config mode the first of two channels failed, the
\* second succeeded, and main returned 1
C18_Witness ==
    /\ Did("main") /\ call.ran /\ ~call.args.use_stored_feeds
    /\ Len(call.jobs) = 2
    /\ FailsBy(call.jobs[1]) /\ ~FailsBy(call.jobs[2])
    /\ ret = Returned(1)

\* position of the first occurrence of a call in a list of calls (0: none)
IndexOf(calls, name) ==
    IF \E i \in 1..Len(calls) : calls[i] = name
    THEN CHOOSE i \in 1..Len(calls) :
            calls[i] = name /\ \A j \in 1..(i - 1) : calls[j] # name
    ELSE 0

\* C21: once the channel is resolved, update_feed_incremental takes the
\* first-run branch exactly when the feed had no row at the start of the call.
\* On a first run register_feed is called before the fetch (so the row is there
\* whatever the fetch does), store_videos is called once, with the whole
\* fetched list, when the fetch returns, and a pass that returns True reports
\* "add".  Otherwise register_feed is not called, the row keeps its
\* registration, and a pass that returns True reports "update".
C21_FirstRunProtocol ==
    (Did("update_feed_incremental") /\ call.env.fails_at # "resolve") =>
        LET channel_id == ResolveChannel(call.config.channel)
            first == channel_id \notin DOMAIN before.feeds
            fetched == call.env.fails_at # "fetch"
        IN  /\ call.is_first_run = Some(first)
            /\ fetched => call.store_calls = <<channel_id>> /\ call.batches = <<call.env.videos>>
            /\ ~fetched => call.store_calls = <<>> /\ call.batches = <<>>
            /\ first =>
                /\ IndexOf(call.calls, "register_feed") > 0
                /\ IndexOf(call.calls, "register_feed")
                        < IndexOf(call.calls, "generate_feed_for_channel")
                /\ channel_id \in DOMAIN feeds
                /\ ret = Returned(TRUE) => call.report = Some("add")
            /\ ~first =>
                /\ IndexOf(call.calls, "register_feed") = 0
                /\ feeds[channel_id].channel_identifier
                        = before.feeds[channel_id].channel_identifier
                /\ feeds[channel_id].feed_config = before.feeds[channel_id].feed_config
                /\ ret = Returned(TRUE) => call.report = Some("update")

\* C21 witness: a first run fetched a list, stored it in one call and reported
\* "add"
C21_Witness ==
    /\ Did("update_feed_incremental")
    /\ ResolveChannel(call.config.channel) \notin DOMAIN before.feeds
    /\ call.batches = <<call.env.videos>>
    /\ Len(call.env.videos) > 0
    /\ Cardinality(DOMAIN videos) > Cardinality(DOMAIN before.videos)
    /\ call.report = Some("add")

\* C27: when update_feed_incremental returns False because the resolution or
\* the fetch failed, the feeds table and the videos table are what they were
\* before the call (so a channel whose first-run fetch failed has no row and
\* is a first run again in the next cycle).
C27_FailureLeavesStore ==
    (/\ Did("update_feed_incremental")
     /\ call.env.fails_at \in {"resolve", "fetch"}
     /\ ret = Returned(FALSE)) =>
        /\ feeds = before.feeds
        /\ videos = before.videos

\* C22: when KeyboardInterrupt is raised at any point of store_videos, the
\* database holds either what it held before the call or all effects of the
\* call: every dict of the batch written, the watermark and the count of the
\* feed row updated.
C22_InterruptAllOrNothing ==
    Did("store_videos_interrupted") =>
        LET full == StoreVideos(before.feeds, before.videos, call.channel_id,
                                call.videos, call.now)
        IN  \/ feeds = before.feeds /\ videos = before.videos
            \/ /\ full.raised = ""
               /\ feeds = full.feeds
               /\ videos = full.videos

\* C22 witness: the interrupt came after the first of two new dicts had been
\* written for a registered feed, and neither of them is in the table
C22_Witness ==
    /\ Did("store_videos_interrupted")
    /\ call.channel_id \in DOMAIN before.feeds
    /\ Len(call.videos) = 2
    /\ call.at = 1
    /\ call.videos[1].id \notin DOMAIN before.videos
    /\ call.videos[2].id \notin DOMAIN before.videos
    /\ call.videos[1].id # call.videos[2].id
    /\ videos = before.videos

\* the loop of main is running or has ended
InLoop == call.op = "main_loop"

\* C23: in the continuous mode the sleep after a cycle is max(0, interval -
\* elapsed): the next cycle starts one interval after the start of the cycle
\* before it when that cycle took no longer than the interval, and as soon as
\* it has ended when it took longer.  A failed cycle does not end the loop:
\* only the interrupt does, and main then returns 1 exactly when some cycle
\* that completed had failed.
C23_Cadence ==
    InLoop =>
        LET cycles == call.cycles
            interval == call.args.interval_seconds
            n == Len(cycles)
        IN  /\ \A i \in 1..(n - 1) :
                cycles[i + 1].start_time =
                    cycles[i].start_time
                        + (IF cycles[i].elapsed <= interval THEN interval
                                                           ELSE cycles[i].elapsed)
            /\ (call.pc = "top" /\ n > 0) =>
                clock = cycles[n].start_time
                            + (IF cycles[n].elapsed <= interval THEN interval
                                                               ELSE cycles[n].elapsed)
            /\ (call.pc = "sleep") =>
                /\ call.sleep_time >= 0
                /\ clock + call.sleep_time
                        = cycles[n].start_time
                            + (IF cycles[n].elapsed <= interval THEN interval
                                                               ELSE cycles[n].elapsed)
            /\ call.exit_code = (IF \E i \in 1..n : ~cycles[i].success THEN 1 ELSE 0)
            /\ call.pc = "done" => ret = Returned(call.exit_code)
            /\ call.pc # "done" => ret = Returned(NoValue)

\* C23 witness: a cycle failed and took less than the interval, the next one
\* started one interval after its start, succeeded and took longer than the
\* interval, a third one started as soon as the second had ended, and the
\* interrupt made main return 1
C23_Witness ==
    /\ InLoop /\ call.pc = "done"
    /\ Len(call.cycles) = 3
    /\ ~call.cycles[1].success
    /\ call.cycles[1].elapsed < call.args.interval_seconds
    /\ call.cycles[2].start_time = call.cycles[1].start_time + call.args.interval_seconds
    /\ call.cycles[2].success
    /\ call.cycles[2].elapsed > call.args.interval_seconds
    /\ call.cycles[3].start_time = call.cycles[2].start_time + call.cycles[2].elapsed
    /\ ret = Returned(1)

\* C24: for every number of seconds n >= 0 the text _seconds_to_iso8601(n)
\* writes is read back as n by _iso8601_duration_to_seconds; a number n <= 0
\* is written as PT0S, which is read as 0.
C24_DurationRoundTrip ==
    /\ (Did("_seconds_to_iso8601") /\ call.seconds <= 0) =>
            ret = Returned(<<"P", "T", "0", "S">>)
    /\ (Did("_iso8601_duration_to_seconds") /\ call.written_from # NoValue) =>
            LET n == call.written_from[1]
            IN  /\ call.iso_dur = SecondsToIso8601(n)
                /\ ret = Returned(IF n >= 0 THEN n ELSE 0)

\* C24 witness: a duration with hours, minutes and seconds of two digits was
\* written as PT1H10M15S and read back
C24_Witness ==
    /\ Did("_iso8601_duration_to_seconds")
    /\ call.written_from = Some(4215)
    /\ call.iso_dur = <<"P", "T", "1", "H", "1", "0", "M", "1", "5", "S">>
    /\ ret = Returned(4215)

\* two configs have the same output path when case is ignored
SameOutput(c1, c2) ==
    LET p1 == resolve(resolved_path(c1, BaseDir)).parts
        p2 == resolve(resolved_path(c2, BaseDir)).parts
    IN  /\ Len(p1) = Len(p2)
        /\ \A i \in 1..Len(p1) : LowerName(p1[i]) = LowerName(p2[i])

\* C25: update_feeds rejects with a configuration error (exit code 2, nothing
\* written) every channel list in which two entries resolve to the same output
\* path when case is ignored, so the files written in one cycle, one per
\* channel that succeeded, are all different, also on a file system that
\* ignores case.
C25_UniqueOutputs ==
    Did("update_feeds_main") =>
        LET configs == call.configs
            writes == call.writes
        IN  /\ (\E i, j \in 1..Len(configs) : i < j /\ SameOutput(configs[i], configs[j]))
                    => ret = Returned(2) /\ writes = <<>>
            /\ \A i, j \in 1..Len(writes) : i < j => writes[i].file # writes[j].file
            /\ ret # Returned(2) =>
                    Len(writes) = Cardinality({i \in 1..Len(configs) : call.envs[i] = ""})

\* C25 witness: two channels with outputs that differ in case only were
\* rejected, on a file system that ignores case
C25_Witness ==
    /\ Did("update_feeds_main")
    /\ Len(call.configs) = 2
    /\ call.configs[1].channel # call.configs[2].channel
    /\ call.configs[1].output = Path(FALSE, <<"a.xml">>)
    /\ call.configs[2].output = Path(FALSE, <<"A.xml">>)
    /\ call.api_key # NoValue
    /\ call.ignores_case
    /\ ret = Returned(2)

\* C26: after any sequence of register_feed, store_videos, remove_feed and
\* cleanup_old_videos calls every row of the videos table has the channel_id
\* of a row of the feeds table (store_videos for a channel that is not
\* registered writes nothing).
C26_ReferentialIntegrity ==
    \A v \in DOMAIN videos : videos[v].channel_id \in DOMAIN feeds

\* C28: in the state store_videos leaves when it returns, the list
\* get_new_videos_since_last_update gives for the channel holds no item
\* published at or before the time of the store_videos call; it is empty when
\* no item of the channel was published after that time, whatever new_count
\* was returned.
C28_NothingNewAfterStore ==
    (Did("store_videos") /\ Succeeded) =>
        LET c == call.channel_id
            rows == NewVideosSinceLastUpdate(feeds, videos, c)
        IN  /\ \A i \in 1..Len(rows) : rows[i].published_at > call.now
            /\ (\A v \in StoredUnder(videos, c) :
                    fromisoformat(videos[v].published_at) <= call.now) => rows = <<>>

\* C28 witness: store_videos reported a new item for a registered channel,
\* published in the past, and the list of new items is empty
C28_Witness ==
    /\ Did("store_videos") /\ Succeeded
    /\ call.channel_id \in DOMAIN feeds
    /\ ret.value.new_count = 1
    /\ StoredUnder(videos, call.channel_id) # {}
    /\ \A v \in StoredUnder(videos, call.channel_id) :
            fromisoformat(videos[v].published_at) < call.now
    /\ NewVideosSinceLastUpdate(feeds, videos, call.channel_id) = <<>>

\* C29: an update_feed_config call that returns True changes the feed_config
\* of the feed only: the stored items, and the feed's last_video_count,
\* query_count, last_queried, channel_identifier, channel_title, user_id and
\* api_key are what they were, so a last_video_count that was the number of
\* stored items still is.
C29_ConfigOnly ==
    (Did("update_feed_config") /\ ret = Returned(TRUE)) =>
        LET c == call.channel_id[1]
            old == before.feeds[c]
            new == feeds[c]
        IN  /\ videos = before.videos
            /\ new.last_video_count = old.last_video_count
            /\ new.query_count = old.query_count
            /\ new.last_queried = old.last_queried
            /\ new.channel_identifier = old.channel_identifier
            /\ new.channel_title = old.channel_title
            /\ new.user_id = old.user_id
            /\ new.api_key = old.api_key
            /\ old.last_video_count = Cardinality(StoredUnder(before.videos, c))
                    => new.last_video_count = Cardinality(StoredUnder(videos, c))

\* C30: in a cycle of FeedUpdater._update_feeds_once a feed whose fetch from
\* the API raised is not counted in success_count, keeps its last_updated, and
\* is reported with an error; success_count is the number of feeds whose fetch
\* succeeded and whose pass completed.
C30_FetchErrorNotCounted ==
    Did("_update_feeds_once") =>
        LET log == call.log
            envs == call.envs
        IN  /\ \A i \in 1..Len(log) :
                (log[i].report # NoValue /\ envs[i].fetch_raises) =>
                    /\ ~log[i].counted
                    /\ log[i].report[1].error
                    /\ feeds[log[i].channel_id].last_updated
                            = before.feeds[log[i].channel_id].last_updated
            /\ call.success_count
                    = Cardinality({i \in 1..Len(log) :
                                    /\ log[i].report # NoValue
                                    /\ ~envs[i].fetch_raises
                                    /\ ~envs[i].write_raises})
====
